---- MODULE Spec2Model ----
(***************************************************************************)
(* A model of the assembly emulator: the two-pass assembler (compile), the *)
(* instruction stepper (executeInstruction) and the host reducer with its  *)
(* free-run timer (Dashboard).  Numbers are JavaScript numbers restricted  *)
(* to the integers the programs of the model produce; bitwise operators    *)
(* are modelled on 32-bit two's complement values as JavaScript defines    *)
(* them.                                                                   *)
(***************************************************************************)
EXTENDS Integers, Sequences, FiniteSets, TLC

VARIABLES
    cpu,        \* the useReducer state: a CPUState
    interval,   \* TRUE while the setInterval of the run-loop effect is registered
    batch,      \* STEP actions of the current timer callback still to be reduced
    loaded,     \* name of the source text of the last successful compile, or "none"
    pre,        \* history: the reducer state before the last STEP
    last,       \* history: what the last reducer action did
    stopped,    \* history: a STEP of the current free run halted or set status error
    steps       \* history: STEP actions reduced since the last load or reset

vars == <<cpu, interval, batch, loaded, pre, last, stopped, steps>>

-----------------------------------------------------------------------------
(* JavaScript number helpers *)

\* A value no computation of a modelled program reaches: evaluating it stops TLC.
Unmodelled == CHOOSE v \in {} : TRUE

Lo8(x) == x % 256

Lo16(x) == x % 65536

\* bits 16..31 of ToInt32(x), as an unsigned 16-bit number
Hi16(x) == (x \div 65536) % 65536

\* the int32 whose unsigned halves are h and l
FromHalves(h, l) == IF h >= 32768 THEN (h - 65536) * 65536 + l ELSE h * 65536 + l

RECURSIVE Bits16(_, _, _, _)
\* op applied bit by bit to the n low bits of a and b
Bits16(op, a, b, n) ==
    IF n = 0 THEN 0
    ELSE LET x == a % 2
             y == b % 2
             z == CASE op = "AND" -> IF x = 1 /\ y = 1 THEN 1 ELSE 0
                    [] op = "OR"  -> IF x = 1 \/ y = 1 THEN 1 ELSE 0
                    [] op = "XOR" -> IF x # y THEN 1 ELSE 0
         IN  z + 2 * Bits16(op, a \div 2, b \div 2, n - 1)

\* a & b, a | b, a ^ b on int32 operands
BitOp(op, a, b) ==
    FromHalves(Bits16(op, Hi16(a), Hi16(b), 16), Bits16(op, Lo16(a), Lo16(b), 16))

\* (x << 24) >> 24
SignExtend8(x) == LET l == Lo8(x) IN IF l >= 128 THEN l - 256 ELSE l

\* (x << 16) >> 16
SignExtend16(x) == LET l == Lo16(x) IN IF l >= 32768 THEN l - 65536 ELSE l

\* a % b of JavaScript (the sign of the dividend), b > 0
JsRem(a, b) == LET r == a % b IN IF a >= 0 \/ r = 0 THEN r ELSE r - b

-----------------------------------------------------------------------------
(* cpu.ts: state *)

MEMORY_SIZE == 65536

NULL == "null"

\* A Uint8Array(65536), held as the function of its nonzero bytes.
EmptyMemory == [a \in {} |-> 0]

\* memory[a]; 256 stands for the undefined of a read outside the array
Mem(m, a) ==
    IF a < 0 \/ a >= MEMORY_SIZE THEN 256
    ELSE IF a \in DOMAIN m THEN m[a] ELSE 0

\* memory[a] = v (the array stores v & 0xFF; a write outside the array is ignored)
MemSet(m, a, v) ==
    IF a < 0 \/ a >= MEMORY_SIZE THEN m
    ELSE LET b == Lo8(v)
             d == IF b = 0 THEN DOMAIN m \ {a} ELSE DOMAIN m \cup {a}
         IN  [x \in d |-> IF x = a THEN b ELSE m[x]]

\* ToInt32 of a byte read: undefined becomes 0 under the bitwise operators
Num0(b) == IF b = 256 THEN 0 ELSE b

INITIAL_REGISTERS ==
    [AX |-> 0, BX |-> 0, CX |-> 0, DX |-> 0,
     SP |-> 65534, BP |-> 0, SI |-> 0, DI |-> 0,
     CS |-> 0, DS |-> 0, ES |-> 0, SS |-> 0,
     IP |-> 256]

INITIAL_FLAGS ==
    [CF |-> FALSE, PF |-> FALSE, AF |-> FALSE, ZF |-> FALSE, SF |-> FALSE,
     TF |-> FALSE, IF_ |-> FALSE, DF |-> FALSE, OF |-> FALSE]

createInitialState ==
    [memory |-> EmptyMemory,
     registers |-> INITIAL_REGISTERS,
     flags |-> INITIAL_FLAGS,
     status |-> "idle",
     error |-> NULL,
     logs |-> <<>>]

Keys16 == <<"AX", "CX", "DX", "BX", "SP", "BP", "SI", "DI">>

Keys8 == <<"AX", "CX", "DX", "BX">>

\* Register ids are 0..15; any other id names no register and is not modelled.
getRegisterRef(id) ==
    IF id \notin 0..15 THEN Unmodelled
    ELSE IF id >= 8 THEN [key |-> Keys16[id - 8 + 1], high |-> FALSE, is8Bit |-> FALSE]
    ELSE [key |-> Keys8[(id % 4) + 1], high |-> id >= 4, is8Bit |-> TRUE]

\* the value of the register ref names
ReadRef(regs, ref) ==
    IF ref.is8Bit
    THEN (IF ref.high THEN Lo8(regs[ref.key] \div 256) ELSE Lo8(regs[ref.key]))
    ELSE regs[ref.key]

getReg(regs, id) == ReadRef(regs, getRegisterRef(id))

\* a write that clears the other half of the parent of a byte register
WriteRefWhole(regs, ref, val) ==
    IF ref.is8Bit
    THEN [regs EXCEPT ![ref.key] = IF ref.high THEN Lo8(val) * 256 ELSE Lo8(val)]
    ELSE [regs EXCEPT ![ref.key] = Lo16(val)]

\* the registers after the write of val to the register ref names: for a byte
\* register (old & 0x00FF) | ((val & 0xFF) << 8) or (old & 0xFF00) | (val & 0xFF),
\* where the AND keeps bits 0..7 or bits 8..15 of old
WriteRef(regs, ref, val) ==
    IF ref.is8Bit
    THEN [regs EXCEPT ![ref.key] =
              IF ref.high THEN (@ % 256) + Lo8(val) * 256
              ELSE ((@ \div 256) % 256) * 256 + Lo8(val)]
    ELSE [regs EXCEPT ![ref.key] = Lo16(val)]

setReg(regs, id, val) == WriteRef(regs, getRegisterRef(id), val)

\* updateFlags that also writes OF, when the result left the range of the width
updateFlagsWithOverflow(flags, result, is8Bit) ==
    LET max == IF is8Bit THEN 255 ELSE 65535
        msb == IF is8Bit THEN 128 ELSE 32768
    IN  [flags EXCEPT !.ZF = (result % (max + 1)) = 0,
                      !.SF = ((result \div msb) % 2) = 1,
                      !.CF = result > max \/ result < 0,
                      !.OF = result > max \/ result < 0]

updateFlags(flags, result, is8Bit) ==
    LET max == IF is8Bit THEN 255 ELSE 65535
        msb == IF is8Bit THEN 128 ELSE 32768
    IN  [flags EXCEPT !.ZF = (result % (max + 1)) = 0,
                      !.SF = ((result \div msb) % 2) = 1,
                      !.CF = result > max \/ result < 0]

-----------------------------------------------------------------------------
(* assembler.ts: the opcode table (read by cpu.ts and by the encoder) *)

OPCODES ==
    [NOP |-> 144, MOV_REG_REG |-> 16, MOV_REG_IMM |-> 17,
     ADD_REG_REG |-> 32, ADD_REG_IMM |-> 33, SUB_REG_REG |-> 48, SUB_REG_IMM |-> 49,
     INC_REG |-> 64, DEC_REG |-> 65, MUL_REG |-> 246, DIV_REG |-> 247,
     AND_REG_REG |-> 34, AND_REG_IMM |-> 35, OR_REG_REG |-> 10, OR_REG_IMM |-> 11,
     XOR_REG_REG |-> 50, XOR_REG_IMM |-> 51, NOT_REG |-> 248,
     INT |-> 205, JMP |-> 233, LOOP |-> 226, HLT |-> 244, RET |-> 195,
     MOV_REG_INDEX |-> 138, MOV_INDEX_REG |-> 136, MOV_REG_MEM |-> 139,
     MOV_MEM_REG |-> 137, MOV_MEM_IMM |-> 198, MOV_INDEX_IMM |-> 199,
     ADD_REG_MEM |-> 36, ADD_REG_INDEX |-> 37, SUB_REG_MEM |-> 52, SUB_REG_INDEX |-> 53,
     AND_REG_MEM |-> 38, AND_REG_INDEX |-> 39, OR_REG_MEM |-> 12, OR_REG_INDEX |-> 13,
     XOR_REG_MEM |-> 54, XOR_REG_INDEX |-> 55,
     ADD_MEM_REG |-> 144, ADD_INDEX_REG |-> 145, ADD_MEM_IMM |-> 146, ADD_INDEX_IMM |-> 147,
     SUB_MEM_REG |-> 148, SUB_INDEX_REG |-> 149, SUB_MEM_IMM |-> 150, SUB_INDEX_IMM |-> 151,
     AND_MEM_REG |-> 152, AND_INDEX_REG |-> 153, AND_MEM_IMM |-> 154, AND_INDEX_IMM |-> 155,
     OR_MEM_REG |-> 156, OR_INDEX_REG |-> 157, OR_MEM_IMM |-> 158, OR_INDEX_IMM |-> 159,
     XOR_MEM_REG |-> 160, XOR_INDEX_REG |-> 161, XOR_MEM_IMM |-> 162, XOR_INDEX_IMM |-> 163,
     INC_MEM |-> 164, INC_INDEX |-> 165, DEC_MEM |-> 166, DEC_INDEX |-> 167,
     NOT_MEM |-> 168, NOT_INDEX |-> 169, MUL_MEM |-> 170, MUL_INDEX |-> 171,
     DIV_MEM |-> 172, DIV_INDEX |-> 173,
     CMP_REG_REG |-> 56, CMP_REG_IMM |-> 57, CMP_REG_MEM |-> 60, CMP_REG_INDEX |-> 61,
     CMP_MEM_REG |-> 62, CMP_INDEX_REG |-> 63, CMP_MEM_IMM |-> 66, CMP_INDEX_IMM |-> 67,
     JE |-> 116, JZ |-> 116, JNE |-> 117, JNZ |-> 117, JL |-> 124, JNGE |-> 124,
     JLE |-> 126, JNG |-> 126, JG |-> 127, JNLE |-> 127, JGE |-> 125, JNL |-> 125,
     JB |-> 114, JNAE |-> 114, JC |-> 114, JBE |-> 118, JNA |-> 118,
     JA |-> 119, JNBE |-> 119, JAE |-> 115, JNB |-> 115, JNC |-> 115]

-----------------------------------------------------------------------------
(* cpu.ts: executeInstruction *)

NoOutput == [has |-> FALSE, str |-> [len |-> 0, chars |-> [i \in {} |-> 0]]]

\* return { newState, output, halted }: newState shares the memory array of state
Returned(s, regs, flags, mem, out, halted) ==
    [thrown |-> FALSE, msg |-> "", halted |-> halted, output |-> out,
     memory |-> mem,
     newState |-> [s EXCEPT !.registers = regs, !.flags = flags, !.memory = mem]]

\* throw new Error(msg): mem is what the shared memory array holds at the throw
Thrown(s, mem, msg) ==
    [thrown |-> TRUE, msg |-> msg, halted |-> FALSE, output |-> NoOutput,
     memory |-> mem, newState |-> s]

\* the k-th operand byte after the opcode at ip - 1 (read8)
OperandByte(s, ip, k) == Mem(s.memory, ip + k)

\* the 16-bit operand whose low byte is the k-th operand byte (read16)
OperandWord(s, ip, k) ==
    Num0(OperandByte(s, ip, k + 1)) * 256 + Num0(OperandByte(s, ip, k))

\* an 8-bit immediate used in arithmetic: undefined would give NaN
Imm8(b) == IF b = 256 THEN Unmodelled ELSE b

Adv(regs, ip) == [regs EXCEPT !.IP = ip]

\* the bounds check and read of a memory operand, 8 or 16 bits wide
LoadOperand(mem, addr, is8Bit) ==
    IF is8Bit
    THEN [oob |-> addr >= MEMORY_SIZE, val |-> Num0(Mem(mem, addr))]
    ELSE [oob |-> addr + 1 >= MEMORY_SIZE,
          val |-> Num0(Mem(mem, addr + 1)) * 256 + Num0(Mem(mem, addr))]

\* the bounds check and write of a memory operand, 8 or 16 bits wide
StoreOperand(mem, addr, val, is8Bit) ==
    IF is8Bit
    THEN [oob |-> addr >= MEMORY_SIZE,
          memory |-> IF addr >= MEMORY_SIZE THEN mem ELSE MemSet(mem, addr, Lo8(val))]
    ELSE [oob |-> addr + 1 >= MEMORY_SIZE,
          memory |-> IF addr + 1 >= MEMORY_SIZE THEN mem
                     ELSE MemSet(MemSet(mem, addr, Lo8(val)), addr + 1, Lo8(val \div 256))]

\* (base + getReg(idx)) & 0xFFFF
EffAddr(regs, idx, base) == Lo16(base + getReg(regs, idx))

\* the raw result of a two-operand operation; MOV yields the source operand
BinOp(name, a, b) ==
    IF name = "MOV" THEN b
    ELSE IF name = "ADD" THEN a + b
    ELSE IF name \in {"SUB", "CMP"} THEN a - b
    ELSE BitOp(name, a, b)

\* what a register-destination form leaves: CMP writes no register, MOV no flag
RegResult(s, name, dest, res, newip) ==
    Returned(s,
             Adv(IF name = "CMP" THEN s.registers ELSE setReg(s.registers, dest, res), newip),
             IF name = "MOV" THEN s.flags ELSE updateFlags(s.flags, res, dest < 8),
             s.memory, NoOutput, FALSE)

\* MOV r,r and ADD/SUB/CMP/AND/OR/XOR r,r: one packed byte (dest << 4) | src
RegRegOp(s, ip, name) ==
    LET dest == (Num0(OperandByte(s, ip, 0)) \div 16) % 16
        src == Num0(OperandByte(s, ip, 0)) % 16
    IN  RegResult(s, name, dest,
                  BinOp(name, getReg(s.registers, dest), getReg(s.registers, src)), ip + 1)

\* MOV r,imm and ADD/SUB/CMP/AND/OR/XOR r,imm: dest id, 16-bit immediate
RegImmOp(s, ip, name) ==
    RegResult(s, name, OperandByte(s, ip, 0),
              BinOp(name, getReg(s.registers, OperandByte(s, ip, 0)), OperandWord(s, ip, 1)),
              ip + 3)

\* the register <- memory operand forms, the address given (direct or effective):
\* the bounds check, then the register-destination result
RegFromMemory(s, name, dest, addr, newip, msg) ==
    LET ld == LoadOperand(s.memory, addr, getRegisterRef(dest).is8Bit)
    IN  IF ld.oob THEN Thrown(s, s.memory, msg)
        ELSE RegResult(s, name, dest, BinOp(name, getReg(s.registers, dest), ld.val), newip)

\* MOV/ADD/SUB/CMP/AND/OR/XOR r,[addr]: dest id, 16-bit address
RegMemOp(s, ip, name, msg) ==
    RegFromMemory(s, name, OperandByte(s, ip, 0), OperandWord(s, ip, 1), ip + 3, msg)

\* MOV/ADD/SUB/CMP/AND/OR/XOR r,[base+idx]: dest id, index id, 16-bit base
RegIndexOp(s, ip, name, msg) ==
    RegFromMemory(s, name, OperandByte(s, ip, 0),
                  EffAddr(s.registers, OperandByte(s, ip, 1), OperandWord(s, ip, 2)),
                  ip + 4, msg)

\* what a memory-destination form leaves: CMP writes no memory, MOV no flag
MemResult(s, name, addr, is8Bit, res, newip) ==
    Returned(s, Adv(s.registers, newip),
             IF name = "MOV" THEN s.flags ELSE updateFlags(s.flags, res, is8Bit),
             IF name = "CMP" THEN s.memory ELSE StoreOperand(s.memory, addr, res, is8Bit).memory,
             NoOutput, FALSE)

\* a variant of the memory <- register forms that writes the low byte of the
\* register before the bounds check
MemoryFromRegWriteFirst(s, name, addr, src, newip, msg) ==
    LET ld == LoadOperand(s.memory, addr, src < 8)
    IN  IF ld.oob
        THEN Thrown(s, MemSet(s.memory, addr, Lo8(getReg(s.registers, src))), msg)
        ELSE MemResult(s, name, addr, src < 8,
                       BinOp(name, ld.val, getReg(s.registers, src)), newip)

\* the memory <- register forms, the address given: the bounds check, which comes
\* before any write, then read, combine, write back
MemoryFromReg(s, name, addr, src, newip, msg) ==
    LET ld == LoadOperand(s.memory, addr, src < 8)
    IN  IF ld.oob THEN Thrown(s, s.memory, msg)
        ELSE MemResult(s, name, addr, src < 8,
                       BinOp(name, ld.val, getReg(s.registers, src)), newip)

\* MOV/ADD/SUB/CMP [addr],r: 16-bit address, src id
MemRegOp(s, ip, name, msg) ==
    MemoryFromReg(s, name, OperandWord(s, ip, 0), OperandByte(s, ip, 2), ip + 3, msg)

\* MOV/ADD/CMP [base+idx],r: index id, 16-bit base, src id
IndexRegOp(s, ip, name, msg) ==
    MemoryFromReg(s, name,
                  EffAddr(s.registers, OperandByte(s, ip, 0), OperandWord(s, ip, 1)),
                  OperandByte(s, ip, 3), ip + 4, msg)

\* the memory <- 8-bit immediate forms, the address given; a MOV stores an
\* undefined immediate as 0, the others would compute with it
MemoryFromImm(s, name, addr, imm, newip, msg) ==
    IF addr >= MEMORY_SIZE THEN Thrown(s, s.memory, msg)
    ELSE MemResult(s, name, addr, TRUE,
                   BinOp(name, Num0(Mem(s.memory, addr)),
                         IF name = "MOV" THEN Num0(imm) ELSE Imm8(imm)), newip)

\* MOV/ADD/SUB/CMP [addr],imm8: 16-bit address, imm8
MemImmOp(s, ip, name, msg) ==
    MemoryFromImm(s, name, OperandWord(s, ip, 0), OperandByte(s, ip, 2), ip + 3, msg)

\* MOV/ADD/CMP [base+idx],imm8: index id, 16-bit base, imm8
IndexImmOp(s, ip, name, msg) ==
    MemoryFromImm(s, name,
                  EffAddr(s.registers, OperandByte(s, ip, 0), OperandWord(s, ip, 1)),
                  OperandByte(s, ip, 3), ip + 4, msg)

\* INC [addr]
IncMem(s, ip, msg) ==
    MemoryFromImm(s, "ADD", OperandWord(s, ip, 0), 1, ip + 2, msg)

\* INC [base+idx]
IncIndex(s, ip, msg) ==
    MemoryFromImm(s, "ADD",
                  EffAddr(s.registers, OperandByte(s, ip, 0), OperandWord(s, ip, 1)),
                  1, ip + 3, msg)

\* INC r, DEC r
IncDecReg(s, ip, delta) ==
    RegResult(s, "ADD", OperandByte(s, ip, 0),
              getReg(s.registers, OperandByte(s, ip, 0)) + delta, ip + 1)

\* NOT r: (~val) & mask, flags untouched
NotReg(s, ip) ==
    RegResult(s, "MOV", OperandByte(s, ip, 0),
              (-getReg(s.registers, OperandByte(s, ip, 0)) - 1)
                  % (IF OperandByte(s, ip, 0) < 8 THEN 256 ELSE 65536),
              ip + 1)

\* MUL that keeps the low word of a 16-bit product only
MulByLowWord(s, ip, is8Bit, val) ==
    LET ax == s.registers.AX
        t == ax * (val \div 256)
        u == (t % 256) * 256 + ax * (val % 256)
        hi == (t \div 256) + (u \div 65536)
        res == IF is8Bit THEN Lo8(ax) * val
               ELSE IF hi > 0 THEN 65536 + (u % 65536) ELSE u % 65536
    IN  IF ~is8Bit /\ ~(ax \in 0..65535 /\ val \in 0..65535) THEN Unmodelled
        ELSE Returned(s,
                      Adv(IF is8Bit THEN [s.registers EXCEPT !.AX = res]
                          ELSE [s.registers EXCEPT !.AX = u % 65536],
                          ip + 1),
                      updateFlags(s.flags, res, FALSE), s.memory, NoOutput, FALSE)

\* AX <- AL * val, or DX:AX <- AX * val.  The product of two 16-bit numbers is
\* computed in 16-bit halves, from the partial products t = AX * (val >> 8) and
\* u = ((t & 0xFF) << 8) + AX * (val & 0xFF); updateFlags sees a product above
\* 0xFFFF when the high half is not 0
MulBy(s, ip, is8Bit, val) ==
    LET ax == s.registers.AX
        t == ax * (val \div 256)
        u == (t % 256) * 256 + ax * (val % 256)
        hi == (t \div 256) + (u \div 65536)
        res == IF is8Bit THEN Lo8(ax) * val
               ELSE IF hi > 0 THEN 65536 + (u % 65536) ELSE u % 65536
    IN  IF ~is8Bit /\ ~(ax \in 0..65535 /\ val \in 0..65535) THEN Unmodelled
        ELSE Returned(s,
                      Adv(IF is8Bit THEN [s.registers EXCEPT !.AX = res]
                          ELSE [s.registers EXCEPT !.AX = u % 65536, !.DX = Lo16(hi)],
                          ip + 1),
                      updateFlags(s.flags, res, FALSE), s.memory, NoOutput, FALSE)

\* MUL r
MulReg(s, ip) ==
    MulBy(s, ip, OperandByte(s, ip, 0) < 8, getReg(s.registers, OperandByte(s, ip, 0)))

\* newState.error = msg; newState.status = 'error'; break: a normal return
DivError(s, ip, msg) ==
    [thrown |-> FALSE, msg |-> "", halted |-> FALSE, output |-> NoOutput,
     memory |-> s.memory,
     newState |-> [s EXCEPT !.registers = Adv(s.registers, ip + 1),
                            !.error = msg, !.status = "error"]]

\* the faults of DIV, else the quotient and remainder written: AL and AH, or AX
\* and DX as they are
DivBy(s, ip, is8Bit, val, dividend) ==
    IF val = 0 THEN DivError(s, ip, "Divide by Zero")
    ELSE IF dividend \div val > (IF is8Bit THEN 255 ELSE 65535)
    THEN DivError(s, ip, "Divide Overflow")
    ELSE Returned(s,
                  Adv(IF is8Bit
                      THEN setReg(setReg(s.registers, 0, dividend \div val), 4,
                                  JsRem(dividend, val))
                      ELSE [s.registers EXCEPT !.AX = dividend \div val,
                                               !.DX = JsRem(dividend, val)],
                      ip + 1),
                  s.flags, s.memory, NoOutput, FALSE)

\* DIV r: the dividend is AX, or (DX << 16) | AX, a signed 32-bit value
DivReg(s, ip) ==
    DivBy(s, ip, OperandByte(s, ip, 0) < 8, getReg(s.registers, OperandByte(s, ip, 0)),
          IF OperandByte(s, ip, 0) < 8 THEN s.registers.AX
          ELSE BitOp("OR", FromHalves(Lo16(s.registers.DX), 0), s.registers.AX))

\* JMP rel16
Jmp(s, ip) ==
    Returned(s, Adv(s.registers, Lo16(ip + 2 + SignExtend16(OperandWord(s, ip, 0)))),
             s.flags, s.memory, NoOutput, FALSE)

\* the conditions with JL reading SF alone
JccConditionWithoutOverflow(name, flags) ==
    CASE name = "JE"  -> flags.ZF
      [] name = "JNE" -> ~flags.ZF
      [] name = "JL"  -> flags.SF
      [] name = "JLE" -> flags.ZF \/ (flags.SF # flags.OF)
      [] name = "JG"  -> ~flags.ZF /\ (flags.SF = flags.OF)
      [] name = "JGE" -> flags.SF = flags.OF
      [] name = "JB"  -> flags.CF
      [] name = "JBE" -> flags.CF \/ flags.ZF
      [] name = "JA"  -> ~flags.CF /\ ~flags.ZF
      [] name = "JAE" -> ~flags.CF

\* the condition of a conditional jump
JccCondition(name, flags) ==
    CASE name = "JE"  -> flags.ZF
      [] name = "JNE" -> ~flags.ZF
      [] name = "JL"  -> flags.SF # flags.OF
      [] name = "JLE" -> flags.ZF \/ (flags.SF # flags.OF)
      [] name = "JG"  -> ~flags.ZF /\ (flags.SF = flags.OF)
      [] name = "JGE" -> flags.SF = flags.OF
      [] name = "JB"  -> flags.CF
      [] name = "JBE" -> flags.CF \/ flags.ZF
      [] name = "JA"  -> ~flags.CF /\ ~flags.ZF
      [] name = "JAE" -> ~flags.CF

\* Jcc rel8
Jcc(s, ip, name) ==
    Returned(s,
             Adv(s.registers,
                 IF JccCondition(name, s.flags)
                 THEN Lo16(ip + 1 + SignExtend8(Num0(OperandByte(s, ip, 0))))
                 ELSE ip + 1),
             s.flags, s.memory, NoOutput, FALSE)

\* LOOP that tests CX as it was before the decrement
LoopOnOldCx(s, ip) ==
    Returned(s,
             Adv([s.registers EXCEPT !.CX = Lo16(@ - 1)],
                 IF s.registers.CX # 0
                 THEN Lo16(ip + 1 + SignExtend8(Num0(OperandByte(s, ip, 0))))
                 ELSE ip + 1),
             s.flags, s.memory, NoOutput, FALSE)

\* LOOP rel8
Loop(s, ip) ==
    LET newCx == Lo16(s.registers.CX - 1)
    IN  Returned(s,
                 Adv([s.registers EXCEPT !.CX = newCx],
                     IF newCx # 0 THEN Lo16(ip + 1 + SignExtend8(Num0(OperandByte(s, ip, 0))))
                     ELSE ip + 1),
                 s.flags, s.memory, NoOutput, FALSE)

\* The text an interrupt prints is held like the memory it is read from: its
\* length and the function from the 0-based index of each nonzero character to its
\* code.

\* String.fromCharCode(code)
fromCharCode(code) ==
    [len |-> 1, chars |-> [i \in (IF code = 0 THEN {} ELSE {0}) |-> code]]

\* the string INT 21h/09h collects: the bytes from DX up to the first '$' (36)
\* or to the end of memory
DollarString(mem, dx) ==
    LET start == IF dx \in 0..65535 THEN dx ELSE Unmodelled
        dollars == {a \in DOMAIN mem : a >= start /\ mem[a] = 36}
        stop == IF dollars = {} THEN MEMORY_SIZE
                ELSE CHOOSE a \in dollars : \A b \in dollars : a <= b
        nonzero == {a \in DOMAIN mem : a >= start /\ a < stop}
    IN  [len |-> stop - start,
         chars |-> [i \in {a - start : a \in nonzero} |-> mem[i + start]]]

\* INT n that serves the functions of INT 21h for every n
IntOpAnyNumber(s, ip) ==
    LET ah == Lo8(s.registers.AX \div 256)
        out == IF ah = 2 THEN [has |-> TRUE, str |-> fromCharCode(Lo8(s.registers.DX))]
               ELSE IF ah = 9
                    THEN [has |-> TRUE, str |-> DollarString(s.memory, s.registers.DX)]
               ELSE NoOutput
    IN  Returned(s, Adv(s.registers, ip + 1), s.flags, s.memory, out, FALSE)

\* INT n
IntOp(s, ip) ==
    LET intNo == OperandByte(s, ip, 0)
        ah == Lo8(s.registers.AX \div 256)
        out == IF intNo # 33 THEN NoOutput
               ELSE IF ah = 2 THEN [has |-> TRUE, str |-> fromCharCode(Lo8(s.registers.DX))]
               ELSE IF ah = 9
                    THEN [has |-> TRUE, str |-> DollarString(s.memory, s.registers.DX)]
               ELSE NoOutput
    IN  Returned(s, Adv(s.registers, ip + 1), s.flags, s.memory, out, FALSE)

\* the cases of the switch over the opcode, in their order: the name of the opcode
\* in OPCODES, the shape of the case, the operation and the message of its throw
Cases ==
    <<<<"NOP", "nop", "", "">>, <<"HLT", "hlt", "", "">>, <<"MOV_REG_REG", "rr", "MOV", "">>,
      <<"MOV_REG_IMM", "ri", "MOV", "">>,
      <<"MOV_REG_INDEX", "rx", "MOV", "Memory Access Out of Bounds">>,
      <<"MOV_INDEX_REG", "xr", "MOV", "Memory Access Out of Bounds">>,
      <<"MOV_REG_MEM", "rm", "MOV", "Memory Access Out of Bounds">>,
      <<"MOV_MEM_REG", "mr", "MOV", "Memory Access Out of Bounds">>,
      <<"MOV_MEM_IMM", "mi", "MOV", "Memory Access Out of Bounds">>,
      <<"MOV_INDEX_IMM", "xi", "MOV", "Memory Access Out of Bounds">>,
      <<"ADD_REG_MEM", "rm", "ADD", "Memory Access Out of Bounds">>,
      <<"ADD_REG_INDEX", "rx", "ADD", "OOB">>,
      <<"ADD_MEM_REG", "mr", "ADD", "Memory Access Out of Bounds">>,
      <<"ADD_INDEX_REG", "xr", "ADD", "Memory Access Out of Bounds">>,
      <<"ADD_MEM_IMM", "mi", "ADD", "Memory Access Out of Bounds">>,
      <<"ADD_INDEX_IMM", "xi", "ADD", "Memory Access Out of Bounds">>,
      <<"SUB_REG_MEM", "rm", "SUB", "Memory Access Out of Bounds">>,
      <<"SUB_REG_INDEX", "rx", "SUB", "Memory Access Out of Bounds">>,
      <<"SUB_MEM_REG", "mr", "SUB", "Memory Access Out of Bounds">>,
      <<"SUB_MEM_IMM", "mi", "SUB", "Memory Access Out of Bounds">>,
      <<"CMP_REG_MEM", "rm", "CMP", "Memory Access Out of Bounds">>,
      <<"CMP_REG_INDEX", "rx", "CMP", "Memory Access Out of Bounds">>,
      <<"CMP_MEM_REG", "mr", "CMP", "Memory Access Out of Bounds">>,
      <<"CMP_MEM_IMM", "mi", "CMP", "Memory Access Out of Bounds">>,
      <<"CMP_INDEX_REG", "xr", "CMP", "OOB">>, <<"CMP_INDEX_IMM", "xi", "CMP", "OOB">>,
      <<"INC_MEM", "incm", "", "Memory Access Out of Bounds">>,
      <<"INC_INDEX", "incx", "", "Memory Access Out of Bounds">>,
      <<"AND_REG_MEM", "rm", "AND", "Memory Access Out of Bounds">>,
      <<"AND_REG_INDEX", "rx", "AND", "Memory Access Out of Bounds">>,
      <<"OR_REG_MEM", "rm", "OR", "Memory Access Out of Bounds">>,
      <<"OR_REG_INDEX", "rx", "OR", "Memory Access Out of Bounds">>,
      <<"XOR_REG_MEM", "rm", "XOR", "Memory Access Out of Bounds">>,
      <<"XOR_REG_INDEX", "rx", "XOR", "Memory Access Out of Bounds">>,
      <<"ADD_REG_REG", "rr", "ADD", "">>, <<"ADD_REG_IMM", "ri", "ADD", "">>,
      <<"SUB_REG_REG", "rr", "SUB", "">>, <<"SUB_REG_IMM", "ri", "SUB", "">>,
      <<"CMP_REG_REG", "rr", "CMP", "">>, <<"CMP_REG_IMM", "ri", "CMP", "">>,
      <<"INC_REG", "inc", "", "">>, <<"DEC_REG", "dec", "", "">>, <<"MUL_REG", "mul", "", "">>,
      <<"DIV_REG", "div", "", "">>, <<"NOT_REG", "not", "", "">>,
      <<"AND_REG_REG", "rr", "AND", "">>, <<"AND_REG_IMM", "ri", "AND", "">>,
      <<"OR_REG_REG", "rr", "OR", "">>, <<"OR_REG_IMM", "ri", "OR", "">>,
      <<"XOR_REG_REG", "rr", "XOR", "">>, <<"XOR_REG_IMM", "ri", "XOR", "">>,
      <<"JMP", "jmp", "", "">>, <<"JE", "jcc", "JE", "">>, <<"JNE", "jcc", "JNE", "">>,
      <<"JL", "jcc", "JL", "">>, <<"JLE", "jcc", "JLE", "">>, <<"JG", "jcc", "JG", "">>,
      <<"JGE", "jcc", "JGE", "">>, <<"JB", "jcc", "JB", "">>, <<"JBE", "jcc", "JBE", "">>,
      <<"JA", "jcc", "JA", "">>, <<"JAE", "jcc", "JAE", "">>, <<"LOOP", "loop", "", "">>,
      <<"INT", "int", "", "">>>>

\* the first case of the switch that an opcode byte selects, or none: RET, the
\* memory forms the switch does not list and a zero byte have no case
FirstCase(hits) ==
    IF hits = {} THEN <<"", "none", "", "">> ELSE Cases[CHOOSE i \in hits : \A j \in hits : i <= j]

CaseOf(op) == FirstCase({i \in 1..Len(Cases) : OPCODES[Cases[i][1]] = op})

\* the body of the selected case; without a case only IP has advanced
Dispatch(s, ip, c) ==
    CASE c[2] = "hlt" -> Returned(s, Adv(s.registers, ip), s.flags, s.memory, NoOutput, TRUE)
      [] c[2] = "rr" -> RegRegOp(s, ip, c[3])
      [] c[2] = "ri" -> RegImmOp(s, ip, c[3])
      [] c[2] = "rm" -> RegMemOp(s, ip, c[3], c[4])
      [] c[2] = "rx" -> RegIndexOp(s, ip, c[3], c[4])
      [] c[2] = "mr" -> MemRegOp(s, ip, c[3], c[4])
      [] c[2] = "xr" -> IndexRegOp(s, ip, c[3], c[4])
      [] c[2] = "mi" -> MemImmOp(s, ip, c[3], c[4])
      [] c[2] = "xi" -> IndexImmOp(s, ip, c[3], c[4])
      [] c[2] = "incm" -> IncMem(s, ip, c[4])
      [] c[2] = "incx" -> IncIndex(s, ip, c[4])
      [] c[2] = "inc" -> IncDecReg(s, ip, 1)
      [] c[2] = "dec" -> IncDecReg(s, ip, -1)
      [] c[2] = "mul" -> MulReg(s, ip)
      [] c[2] = "div" -> DivReg(s, ip)
      [] c[2] = "not" -> NotReg(s, ip)
      [] c[2] = "jmp" -> Jmp(s, ip)
      [] c[2] = "jcc" -> Jcc(s, ip, c[3])
      [] c[2] = "loop" -> Loop(s, ip)
      [] c[2] = "int" -> IntOp(s, ip)
      [] OTHER -> Returned(s, Adv(s.registers, ip), s.flags, s.memory, NoOutput, FALSE)

executeInstruction(state) ==
    IF state.registers.IP >= MEMORY_SIZE
    THEN Thrown(state, state.memory, "IP out of bounds")
    ELSE Dispatch(state, state.registers.IP + 1,
                  CaseOf(Mem(state.memory, state.registers.IP)))

-----------------------------------------------------------------------------
(* assembler.ts: text.  A string is the sequence of its characters. *)

UpperLetters ==
    <<"A", "B", "C", "D", "E", "F", "G", "H", "I", "J", "K", "L", "M",
      "N", "O", "P", "Q", "R", "S", "T", "U", "V", "W", "X", "Y", "Z">>

LowerLetters ==
    <<"a", "b", "c", "d", "e", "f", "g", "h", "i", "j", "k", "l", "m",
      "n", "o", "p", "q", "r", "s", "t", "u", "v", "w", "x", "y", "z">>

DigitChars ==
    <<"0", "1", "2", "3", "4", "5", "6", "7", "8", "9", "A", "B", "C", "D", "E", "F">>

\* the printable ASCII characters, the one with code c at index c - 31
\* ("grave" stands for the character 96)
Ascii ==
    <<" ", "!", "\"", "#", "$", "%", "&", "'", "(", ")", "*", "+", ",", "-", ".", "/",
      "0", "1", "2", "3", "4", "5", "6", "7", "8", "9", ":", ";", "<", "=", ">", "?",
      "@", "A", "B", "C", "D", "E", "F", "G", "H", "I", "J", "K", "L", "M", "N", "O",
      "P", "Q", "R", "S", "T", "U", "V", "W", "X", "Y", "Z", "[", "\\", "]", "^", "_",
      "grave", "a", "b", "c", "d", "e", "f", "g", "h", "i", "j", "k", "l", "m", "n", "o",
      "p", "q", "r", "s", "t", "u", "v", "w", "x", "y", "z", "{", "|", "}", "~">>

IndexIn(seq, c) ==
    IF \E i \in 1..Len(seq) : seq[i] = c
    THEN CHOOSE i \in 1..Len(seq) : seq[i] = c /\ \A j \in 1..(i - 1) : seq[j] # c
    ELSE 0

\* content.charCodeAt(i)
charCodeAt(c) == IndexIn(Ascii, c) + 31

UpperChar(c) ==
    LET i == IndexIn(LowerLetters, c) IN IF i = 0 THEN c ELSE UpperLetters[i]

toUpperCase(str) == [i \in 1..Len(str) |-> UpperChar(str[i])]

\* str.indexOf(c): the 0-based index of the first c, -1 when absent
indexOf(str, c) == IndexIn(str, c) - 1

includes(str, c) == IndexIn(str, c) # 0

\* str.substring(a, b): 0-based, end exclusive, arguments clamped and swapped
substring(str, a, b) ==
    LET ca == IF a < 0 THEN 0 ELSE IF a > Len(str) THEN Len(str) ELSE a
        cb == IF b < 0 THEN 0 ELSE IF b > Len(str) THEN Len(str) ELSE b
        lo == IF ca <= cb THEN ca ELSE cb
        hi == IF ca <= cb THEN cb ELSE ca
    IN  SubSeq(str, lo + 1, hi)

RECURSIVE trimStart(_)
trimStart(str) ==
    IF Len(str) > 0 /\ Head(str) = " " THEN trimStart(Tail(str)) ELSE str

RECURSIVE trimEnd(_)
trimEnd(str) ==
    IF Len(str) > 0 /\ str[Len(str)] = " "
    THEN trimEnd(SubSeq(str, 1, Len(str) - 1)) ELSE str

trim(str) == trimEnd(trimStart(str))

startsWith(str, c) == Len(str) > 0 /\ str[1] = c

endsWith(str, c) == Len(str) > 0 /\ str[Len(str)] = c

NaN == [nan |-> TRUE, v |-> 0]

Number(n) == [nan |-> FALSE, v |-> n]

RECURSIVE DigitsPrefix(_, _, _, _)
\* the value of the longest prefix of str made of digits of the radix, after acc;
\* seen tells whether a digit was read
DigitsPrefix(str, radix, acc, seen) ==
    LET d == IF Len(str) = 0 THEN 0 ELSE IndexIn(DigitChars, UpperChar(Head(str)))
    IN  IF Len(str) = 0 \/ d = 0 \/ d > radix
        THEN (IF seen THEN Number(acc) ELSE NaN)
        ELSE DigitsPrefix(Tail(str), radix, acc * radix + (d - 1), TRUE)

\* the sign of parseInt applied to the digits read
Negate(neg, r) == IF r.nan THEN NaN ELSE Number(IF neg THEN -r.v ELSE r.v)

\* parseInt(str, radix): leading blanks, a sign, for radix 16 a 0x prefix, digits
parseInt(str, radix) ==
    LET t == trimStart(str)
        u == IF startsWith(t, "-") \/ startsWith(t, "+") THEN Tail(t) ELSE t
    IN  Negate(startsWith(t, "-"),
               DigitsPrefix(IF radix = 16 /\ Len(u) >= 2 /\ u[1] = "0" /\ u[2] \in {"x", "X"}
                            THEN SubSeq(u, 3, Len(u)) ELSE u,
                            radix, 0, FALSE))

\* the returns of parseNumber, str trimmed and in upper case
ParseUpper(str) ==
    parseInt(IF endsWith(str, "H") THEN substring(str, 0, Len(str) - 1)
             ELSE IF Len(str) >= 2 /\ str[1] = "0" /\ str[2] = "X"
             THEN substring(str, 2, Len(str)) ELSE str,
             IF endsWith(str, "H") \/ (Len(str) >= 2 /\ str[1] = "0" /\ str[2] = "X")
             THEN 16 ELSE 10)

parseNumber(text) == ParseUpper(toUpperCase(trim(text)))

REGISTERS_MAP ==
    (<<"A", "L">> :> 0) @@ (<<"C", "L">> :> 1) @@ (<<"D", "L">> :> 2) @@ (<<"B", "L">> :> 3) @@
    (<<"A", "H">> :> 4) @@ (<<"C", "H">> :> 5) @@ (<<"D", "H">> :> 6) @@ (<<"B", "H">> :> 7) @@
    (<<"A", "X">> :> 8) @@ (<<"C", "X">> :> 9) @@ (<<"D", "X">> :> 10) @@ (<<"B", "X">> :> 11) @@
    (<<"S", "P">> :> 12) @@ (<<"B", "P">> :> 13) @@ (<<"S", "I">> :> 14) @@ (<<"D", "I">> :> 15)

isReg(str) == toUpperCase(str) \in DOMAIN REGISTERS_MAP

getRegId(str) == REGISTERS_MAP[toUpperCase(str)]

\* isReg and getRegId of one operand: the id of the register it names, -1 for none
RegId(str) == IF isReg(str) THEN getRegId(str) ELSE -1

\* the value of an absent array element or argument
UNDEFINED == <<"undefined">>

\* args[k], 0-based
Arg(args, k) == IF k < Len(args) THEN args[k + 1] ELSE UNDEFINED

\* an Error: the fixed text of its message and the text interpolated after it
Err(text, arg) == [text |-> text, arg |-> arg]

NoError == Err("", <<>>)

\* a method call on undefined (the wording of the message depends on the engine)
TypeError == Err("Cannot read properties of undefined", <<>>)

Threw(r) == r.err # NoError

Value(v) == [err |-> NoError, val |-> v]

\* the end of resolveValue, n the number parsed from s
ResolveNumber(s, allowUnresolved, n) ==
    IF n.nan
    THEN (IF allowUnresolved THEN Value(0) ELSE [err |-> Err("Invalid value: ", s), val |-> 0])
    ELSE Value(n.v)

resolveValue(s, labels, allowUnresolved) ==
    IF s = UNDEFINED THEN [err |-> TypeError, val |-> 0]
    ELSE IF includes(s, "[") /\ includes(s, "]")
    THEN [err |-> Err("Indexed addressing not supported in direct value resolution.", <<>>),
          val |-> 0]
    ELSE IF s \in DOMAIN labels THEN Value(labels[s])
    ELSE ResolveNumber(s, allowUnresolved, parseNumber(s))

NullIndexed == [err |-> NoError, null |-> TRUE, reg |-> 0, addr |-> 0]

\* return { reg, addr }, or the throw of resolveValue
IndexedAddr(reg, addr) ==
    IF Threw(addr) THEN [NullIndexed EXCEPT !.err = addr.err]
    ELSE [err |-> NoError, null |-> FALSE, reg |-> reg, addr |-> addr.val]

\* parseIndexed with both brackets found: the text before and between them
IndexedParts(labelStr, regStr, labels, allowUnresolved) ==
    IF ~isReg(regStr)
    THEN (IF labelStr = <<>> THEN NullIndexed
          ELSE [NullIndexed EXCEPT !.err = Err("Invalid index register: ", regStr)])
    ELSE IndexedAddr(getRegId(regStr),
                     IF labelStr # <<>> THEN resolveValue(labelStr, labels, allowUnresolved)
                     ELSE Value(0))

IndexedAt(s, labels, allowUnresolved, openBracket, closeBracket) ==
    IF openBracket # -1 /\ closeBracket # -1
    THEN IndexedParts(trim(substring(s, 0, openBracket)),
                      trim(substring(s, openBracket + 1, closeBracket)),
                      labels, allowUnresolved)
    ELSE NullIndexed

parseIndexed(s, labels, allowUnresolved) ==
    IF s = UNDEFINED THEN [NullIndexed EXCEPT !.err = TypeError]
    ELSE IndexedAt(s, labels, allowUnresolved, indexOf(s, "["), indexOf(s, "]"))

NullMem == [err |-> NoError, null |-> TRUE, val |-> 0]

\* parseMem of a bracketed operand: what resolveValue returned or threw
MemResolved(r) == [err |-> r.err, null |-> Threw(r), val |-> r.val]

parseMem(s, labels, allowUnresolved) ==
    IF s = UNDEFINED THEN [NullMem EXCEPT !.err = TypeError]
    ELSE IF startsWith(s, "[") /\ endsWith(s, "]")
    THEN MemResolved(resolveValue(trim(substring(s, 1, Len(s) - 1)), labels, allowUnresolved))
    ELSE IF s \in DOMAIN labels THEN [err |-> NoError, null |-> FALSE, val |-> labels[s]]
    ELSE IF allowUnresolved /\ parseNumber(s).nan /\ ~isReg(s)
    THEN [err |-> NoError, null |-> FALSE, val |-> 0]
    ELSE NullMem

-----------------------------------------------------------------------------
(* assembler.ts: encodeInstruction *)

\* v & 0xFF and (v >> 8) & 0xFF
LoByte(v) == v % 256

HiByte(v) == (v \div 256) % 256

Bytes(b) == [err |-> NoError, bytes |-> b]

Throw(e) == [err |-> e, bytes |-> <<>>]

RECURSIVE join(_)
\* args.join(', ')
join(args) ==
    IF Len(args) = 0 THEN <<>>
    ELSE IF Len(args) = 1 THEN args[1]
    ELSE args[1] \o <<",", " ">> \o join(Tail(args))

UnknownInstruction(op, args) ==
    Throw(Err("Unknown instruction or mode: ", op \o <<" ">> \o join(args)))

MemToMem ==
    Err("Memory to Memory transfer not allowed. Use a register as intermediate.", <<>>)

\* the mnemonics of the two-operand and the one-operand branch, with their names
\* in OPCODES: opCodes.reg is OPCODES[name_REG_REG] or OPCODES[name_REG]
ArithOpCodes ==
    (<<"A", "D", "D">> :> "ADD") @@ (<<"S", "U", "B">> :> "SUB") @@
    (<<"A", "N", "D">> :> "AND") @@ (<<"O", "R">> :> "OR") @@
    (<<"X", "O", "R">> :> "XOR") @@ (<<"C", "M", "P">> :> "CMP")

SingleOpCodes ==
    (<<"I", "N", "C">> :> "INC") @@ (<<"D", "E", "C">> :> "DEC") @@
    (<<"N", "O", "T">> :> "NOT") @@ (<<"M", "U", "L">> :> "MUL") @@
    (<<"D", "I", "V">> :> "DIV")

\* the opcode of a mnemonic for an operand shape
OpCodeOf(name, shape) ==
    OPCODES[CASE shape = "reg" /\ name \in {"INC", "DEC", "NOT", "MUL", "DIV"} -> name \o "_REG"
              [] shape = "reg" -> name \o "_REG_REG"
              [] shape = "imm" -> name \o "_REG_IMM"
              [] shape = "mem" /\ name \in {"INC", "DEC", "NOT", "MUL", "DIV"} -> name \o "_MEM"
              [] shape = "mem" -> name \o "_REG_MEM"
              [] shape = "idx" /\ name \in {"INC", "DEC", "NOT", "MUL", "DIV"} -> name \o "_INDEX"
              [] shape = "idx" -> name \o "_REG_INDEX"
              [] shape = "memReg" -> name \o "_MEM_REG"
              [] shape = "idxReg" -> name \o "_INDEX_REG"
              [] shape = "memImm" -> name \o "_MEM_IMM"
              [] shape = "idxImm" -> name \o "_INDEX_IMM"]

\* the conditional jumps, with their names in OPCODES
JUMPS ==
    (<<"J", "E">> :> "JE") @@ (<<"J", "Z">> :> "JZ") @@ (<<"J", "N", "E">> :> "JNE") @@
    (<<"J", "N", "Z">> :> "JNZ") @@ (<<"J", "L">> :> "JL") @@ (<<"J", "N", "G", "E">> :> "JNGE") @@
    (<<"J", "L", "E">> :> "JLE") @@ (<<"J", "N", "G">> :> "JNG") @@ (<<"J", "G">> :> "JG") @@
    (<<"J", "N", "L", "E">> :> "JNLE") @@ (<<"J", "G", "E">> :> "JGE") @@ (<<"J", "N", "L">> :> "JNL") @@
    (<<"J", "B">> :> "JB") @@ (<<"J", "N", "A", "E">> :> "JNAE") @@ (<<"J", "C">> :> "JC") @@
    (<<"J", "B", "E">> :> "JBE") @@ (<<"J", "N", "A">> :> "JNA") @@ (<<"J", "A">> :> "JA") @@
    (<<"J", "N", "B", "E">> :> "JNBE") @@ (<<"J", "A", "E">> :> "JAE") @@ (<<"J", "N", "B">> :> "JNB") @@
    (<<"J", "N", "C">> :> "JNC")

\* one operand as the encoder reads it: isReg and getRegId (reg is -1 for no
\* register), parseIndexed and parseMem
Operand(s, labels, allowUnresolved) ==
    [text |-> s, reg |-> RegId(s),
     indexed |-> parseIndexed(s, labels, allowUnresolved),
     mem |-> parseMem(s, labels, allowUnresolved)]

\* the MOV branch, dest and src read and val the value of src; when no form
\* matches control falls to the end of the encoder
EncodeMov(op, args, dest, src, val) ==
    IF Threw(dest.indexed) THEN Throw(dest.indexed.err)
    ELSE IF Threw(src.indexed) THEN Throw(src.indexed.err)
    ELSE IF Threw(dest.mem) THEN Throw(dest.mem.err)
    ELSE IF Threw(src.mem) THEN Throw(src.mem.err)
    ELSE IF (~dest.indexed.null \/ ~dest.mem.null) /\ (~src.indexed.null \/ ~src.mem.null)
    THEN Throw(MemToMem)
    ELSE IF dest.reg # -1 /\ src.reg # -1
    THEN Bytes(<<OPCODES.MOV_REG_REG, dest.reg * 16 + src.reg>>)
    ELSE IF dest.reg # -1 /\ ~src.indexed.null
    THEN Bytes(<<OPCODES.MOV_REG_INDEX, dest.reg, src.indexed.reg,
                 LoByte(src.indexed.addr), HiByte(src.indexed.addr)>>)
    ELSE IF ~dest.indexed.null /\ src.reg # -1
    THEN Bytes(<<OPCODES.MOV_INDEX_REG, dest.indexed.reg,
                 LoByte(dest.indexed.addr), HiByte(dest.indexed.addr), src.reg>>)
    ELSE IF dest.reg # -1
    THEN (IF ~src.mem.null
          THEN Bytes(<<OPCODES.MOV_REG_MEM, dest.reg, LoByte(src.mem.val), HiByte(src.mem.val)>>)
          ELSE IF Threw(val) THEN Throw(val.err)
          ELSE Bytes(<<OPCODES.MOV_REG_IMM, dest.reg, LoByte(val.val), HiByte(val.val)>>))
    ELSE IF src.reg # -1 /\ ~dest.mem.null
    THEN Bytes(<<OPCODES.MOV_MEM_REG, LoByte(dest.mem.val), HiByte(dest.mem.val), src.reg>>)
    ELSE IF ~dest.indexed.null
    THEN (IF Threw(val) THEN Throw(val.err)
          ELSE Bytes(<<OPCODES.MOV_INDEX_IMM, dest.indexed.reg,
                       LoByte(dest.indexed.addr), HiByte(dest.indexed.addr),
                       LoByte(val.val)>>))
    ELSE IF ~dest.mem.null
    THEN (IF Threw(val) THEN Throw(val.err)
          ELSE Bytes(<<OPCODES.MOV_MEM_IMM, LoByte(dest.mem.val), HiByte(dest.mem.val),
                       LoByte(val.val)>>))
    ELSE UnknownInstruction(op, args)

\* the form of a two-operand instruction: the immediate forms resolve val
ArithShape(dest, src) ==
    IF dest.reg # -1
    THEN (IF src.reg # -1 THEN "reg" ELSE IF ~src.indexed.null THEN "idx"
          ELSE IF ~src.mem.null THEN "mem" ELSE "imm")
    ELSE IF ~dest.indexed.null THEN (IF src.reg # -1 THEN "idxReg" ELSE "idxImm")
    ELSE IF ~dest.mem.null THEN (IF src.reg # -1 THEN "memReg" ELSE "memImm")
    ELSE "none"

\* return [opCodes.shape, ...] with the bytes of the form after the opcode, unless
\* resolveValue threw or no form matched
ArithForm(op, args, name, shape, dest, src, val) ==
    IF shape = "none" THEN UnknownInstruction(op, args)
    ELSE IF shape \in {"imm", "idxImm", "memImm"} /\ Threw(val) THEN Throw(val.err)
    ELSE Bytes(<<OpCodeOf(name, shape)>> \o
               (CASE shape = "reg" -> <<dest.reg * 16 + src.reg>>
                  [] shape = "idx" -> <<dest.reg, src.indexed.reg,
                                        LoByte(src.indexed.addr), HiByte(src.indexed.addr)>>
                  [] shape = "mem" -> <<dest.reg, LoByte(src.mem.val), HiByte(src.mem.val)>>
                  [] shape = "imm" -> <<dest.reg, LoByte(val.val), HiByte(val.val)>>
                  [] shape = "idxReg" -> <<dest.indexed.reg, LoByte(dest.indexed.addr),
                                           HiByte(dest.indexed.addr), src.reg>>
                  [] shape = "idxImm" -> <<dest.indexed.reg, LoByte(dest.indexed.addr),
                                           HiByte(dest.indexed.addr), LoByte(val.val)>>
                  [] shape = "memReg" -> <<LoByte(dest.mem.val), HiByte(dest.mem.val),
                                           src.reg>>
                  [] shape = "memImm" -> <<LoByte(dest.mem.val), HiByte(dest.mem.val),
                                           LoByte(val.val)>>))

\* the ADD/SUB/AND/OR/XOR/CMP branch without the test for two memory operands
EncodeArithUnchecked(op, args, dest, src, val) ==
    IF Threw(dest.indexed) THEN Throw(dest.indexed.err)
    ELSE IF Threw(dest.mem) THEN Throw(dest.mem.err)
    ELSE IF Threw(src.indexed) THEN Throw(src.indexed.err)
    ELSE IF Threw(src.mem) THEN Throw(src.mem.err)
    ELSE ArithForm(op, args, ArithOpCodes[op], ArithShape(dest, src), dest, src, val)

\* the ADD/SUB/AND/OR/XOR/CMP branch, dest and src read and val the value of src
EncodeArith(op, args, dest, src, val) ==
    IF Threw(dest.indexed) THEN Throw(dest.indexed.err)
    ELSE IF Threw(dest.mem) THEN Throw(dest.mem.err)
    ELSE IF Threw(src.indexed) THEN Throw(src.indexed.err)
    ELSE IF Threw(src.mem) THEN Throw(src.mem.err)
    ELSE IF (~dest.indexed.null \/ ~dest.mem.null) /\ (~src.indexed.null \/ ~src.mem.null)
    THEN Throw(MemToMem)
    ELSE ArithForm(op, args, ArithOpCodes[op], ArithShape(dest, src), dest, src, val)

\* the INC/DEC/NOT/MUL/DIV branch, dest read
EncodeSingle(op, name, dest) ==
    IF dest.text = UNDEFINED THEN Throw(TypeError)
    ELSE IF dest.reg # -1 THEN Bytes(<<OpCodeOf(name, "reg"), dest.reg>>)
    ELSE IF Threw(dest.indexed) THEN Throw(dest.indexed.err)
    ELSE IF ~dest.indexed.null
    THEN Bytes(<<OpCodeOf(name, "idx"), dest.indexed.reg, LoByte(dest.indexed.addr),
                 HiByte(dest.indexed.addr)>>)
    ELSE IF Threw(dest.mem) THEN Throw(dest.mem.err)
    ELSE IF ~dest.mem.null
    THEN Bytes(<<OpCodeOf(name, "mem"), LoByte(dest.mem.val), HiByte(dest.mem.val)>>)
    ELSE Throw(Err("Invalid operand for ", op \o <<":", " ">> \o dest.text))

\* the JMP, conditional jump and LOOP branches: size is the encoded length
EncodeJump(opcode, size, target, currentOffset) ==
    LET disp == target.val - (currentOffset + size)
    IN  IF Threw(target) THEN Throw(target.err)
        ELSE IF size = 3 THEN Bytes(<<opcode, LoByte(disp), HiByte(disp)>>)
        ELSE Bytes(<<opcode, LoByte(disp)>>)

\* INT n; a NaN operand is written as it is stored in the Uint8Array, 0
EncodeInt(arg, val) ==
    IF arg = UNDEFINED THEN Throw(TypeError)
    ELSE Bytes(<<OPCODES.INT, IF val.nan THEN 0 ELSE val.v>>)

\* the branches of the encoder that read operands: ops are args[0] and args[1]
\* as read, val the value of args[1]
EncodeOperands(op, args, labels, currentOffset, allowUnresolved, ops, val) ==
    IF op = <<"M", "O", "V">> THEN EncodeMov(op, args, ops[0], ops[1], val)
    ELSE IF op \in DOMAIN ArithOpCodes THEN EncodeArith(op, args, ops[0], ops[1], val)
    ELSE EncodeSingle(op, SingleOpCodes[op], ops[0])

\* encodeInstruction, op the mnemonic in upper case
EncodeOp(op, args, labels, currentOffset, allowUnresolved) ==
    IF op = <<"N", "O", "P">> THEN Bytes(<<OPCODES.NOP>>)
    ELSE IF op = <<"H", "L", "T">> THEN Bytes(<<OPCODES.HLT>>)
    ELSE IF op = <<"R", "E", "T">> THEN Bytes(<<OPCODES.RET>>)
    ELSE IF op = <<"M", "O", "V">> \/ op \in DOMAIN ArithOpCodes \/ op \in DOMAIN SingleOpCodes
    THEN EncodeOperands(op, args, labels, currentOffset, allowUnresolved,
                        [k \in 0..1 |-> Operand(Arg(args, k), labels, allowUnresolved)],
                        resolveValue(Arg(args, 1), labels, allowUnresolved))
    ELSE IF op = <<"I", "N", "T">> THEN EncodeInt(Arg(args, 0), parseNumber(Arg(args, 0)))
    ELSE IF op = <<"J", "M", "P">> \/ op \in DOMAIN JUMPS \/ op = <<"L", "O", "O", "P">>
    THEN EncodeJump(OPCODES[IF op = <<"J", "M", "P">> THEN "JMP"
                            ELSE IF op \in DOMAIN JUMPS THEN JUMPS[op] ELSE "LOOP"],
                    IF op = <<"J", "M", "P">> THEN 3 ELSE 2,
                    resolveValue(Arg(args, 0), labels, allowUnresolved), currentOffset)
    ELSE UnknownInstruction(op, args)

encodeInstruction(mnemonic, args, labels, currentOffset, allowUnresolved) ==
    EncodeOp(toUpperCase(mnemonic), args, labels, currentOffset, allowUnresolved)

-----------------------------------------------------------------------------
(* assembler.ts: parseLine and the two passes of compile *)

RECURSIVE split(_, _)
\* str.split(c)
split(str, c) ==
    LET i == indexOf(str, c)
    IN  IF i = -1 THEN <<str>>
        ELSE <<substring(str, 0, i)>> \o split(substring(str, i + 1, Len(str)), c)

\* the null of a label, an instruction or a directive
NULLSTR == <<"null">>

\* a string used as a condition: null and the empty string are falsy
Truthy(str) == str # NULLSTR /\ str # <<>>

DB == <<"D", "B">>

DW == <<"D", "W">>

EQU == <<"E", "Q", "U">>

ORG == <<"O", "R", "G">>

StartsWithQuote(str) == startsWith(str, "'") \/ startsWith(str, "\"")

TrimAll(strs) == [i \in 1..Len(strs) |-> trim(strs[i])]

\* the operands of op, which is in upper case: a quoted DB operand is kept whole
Operands(op, argsStr) ==
    IF op = DB /\ (includes(argsStr, "'") \/ includes(argsStr, "\""))
    THEN IF includes(argsStr, ",")
         THEN (IF StartsWithQuote(trim(argsStr)) THEN <<trim(argsStr)>>
               ELSE TrimAll(split(argsStr, ",")))
         ELSE <<trim(argsStr)>>
    ELSE IF argsStr # <<>> THEN TrimAll(split(argsStr, ",")) ELSE <<>>

\* the object parseLine returns, upper being op.toUpperCase()
ParsedOp(label, op, upper, argsStr) ==
    [null |-> FALSE, label |-> label,
     instruction |-> IF upper \in {ORG, DB, DW, EQU} THEN NULLSTR ELSE op,
     directive |-> IF upper \in {ORG, DB, DW, EQU} THEN upper ELSE NULLSTR,
     operands |-> Operands(upper, argsStr)]

\* parseLine from the test of rest on, lr being <<label, rest>>
ParsedRest(lr) ==
    LET spaceIdx == indexOf(lr[2], " ")
        op == IF spaceIdx = -1 THEN lr[2] ELSE substring(lr[2], 0, spaceIdx)
    IN  IF lr[2] = <<>>
        THEN [null |-> FALSE, label |-> lr[1], instruction |-> NULLSTR,
              directive |-> NULLSTR, operands |-> <<>>]
        ELSE ParsedOp(lr[1], op, toUpperCase(op),
                      IF spaceIdx = -1 THEN <<>>
                      ELSE substring(lr[2], spaceIdx + 1, Len(lr[2])))

\* label and rest of a line without colon: a variable declaration when a blank
\* is followed by DB, DW or EQU
BareLabel(clean, spaceIdx) ==
    LET first == trim(substring(clean, 0, spaceIdx))
        remainder == trim(substring(clean, spaceIdx + 1, Len(clean)))
    IN  IF spaceIdx # -1 /\ toUpperCase(split(remainder, " ")[1]) \in {DB, DW, EQU}
        THEN <<first, remainder>> ELSE <<NULLSTR, clean>>

\* parseLine, clean the line without comment and outer blanks: null for an empty
\* line; with a colon, label and rest are the first two of clean.split(':')
ParsedClean(clean) ==
    LET parts == split(clean, ":")
    IN  IF clean = <<>>
        THEN [null |-> TRUE, label |-> NULLSTR, instruction |-> NULLSTR,
              directive |-> NULLSTR, operands |-> <<>>]
        ELSE ParsedRest(IF includes(clean, ":")
                        THEN <<trim(parts[1]),
                               IF Len(parts) >= 2 /\ parts[2] # <<>> THEN trim(parts[2])
                               ELSE <<>>>>
                        ELSE BareLabel(clean, indexOf(clean, " ")))

parseLine(line) == ParsedClean(trim(split(line, ";")[1]))

\* labels[k] = v, sourceMap.set(k, v)
MapSet(map, k, v) == [x \in DOMAIN map \cup {k} |-> IF x = k THEN v ELSE map[x]]

\* the offset after ORG: if (!isNaN(val)) offset = val
OrgOffset(offset, val) == IF val.nan THEN offset ELSE val.v

\* offset += len, or += 2 in the catch
Pass1Encoded(st, labels, enc) ==
    [st EXCEPT !.labels = labels, !.offset = @ + (IF Threw(enc) THEN 2 ELSE Len(enc.bytes))]

\* the directives in pass 1, args being parts.operands[0]
Pass1Directive(parts, st, labels, args) ==
    IF parts.directive = DB
    THEN (IF args = UNDEFINED THEN [st EXCEPT !.labels = labels, !.thrown = TRUE]
          ELSE IF StartsWithQuote(args)
          THEN [st EXCEPT !.labels = labels, !.offset = @ + Len(args) - 2]
          ELSE [st EXCEPT !.labels = labels, !.offset = @ + Len(parts.operands)])
    ELSE IF parts.directive = DW
    THEN [st EXCEPT !.labels = labels, !.offset = @ + Len(parts.operands) * 2]
    ELSE IF parts.directive = ORG
    THEN (IF args = UNDEFINED THEN [st EXCEPT !.labels = labels, !.thrown = TRUE]
          ELSE [st EXCEPT !.labels = labels, !.offset = OrgOffset(@, parseNumber(args))])
    ELSE [st EXCEPT !.labels = labels]

\* pass 1 after the label of the line is recorded in labels
Pass1Labelled(parts, st, labels) ==
    IF Truthy(parts.instruction)
    THEN Pass1Encoded(st, labels,
                      encodeInstruction(parts.instruction, parts.operands, labels, 0, TRUE))
    ELSE Pass1Directive(parts, st, labels, Arg(parts.operands, 0))

\* one line of pass 1, parts being parseLine(line): the labels and the offset after
\* it, or the TypeError of a directive without operand, which no handler of
\* compile catches
Pass1Line(parts, st) ==
    IF parts.null THEN st
    ELSE Pass1Labelled(parts, st,
                       IF Truthy(parts.label) THEN MapSet(st.labels, parts.label, st.offset)
                       ELSE st.labels)

RECURSIVE Pass1(_, _, _)
\* lines.forEach of pass 1 from line i on
Pass1(lines, i, st) ==
    IF i > Len(lines) \/ st.thrown THEN st
    ELSE Pass1(lines, i + 1, Pass1Line(parseLine(lines[i]), st))

RECURSIVE Emit(_, _, _)
\* machineCode[offset++] = b for each b of bytes
Emit(code, offset, bytes) ==
    IF Len(bytes) = 0 THEN code
    ELSE Emit(MemSet(code, offset, Head(bytes)), offset + 1, Tail(bytes))

CharCodes(str) == [i \in 1..Len(str) |-> charCodeAt(str[i])]

\* the bytes of one operand of a DB: the characters between quotes, or
\* parseNumber(o) & 0xFF
DbOperand(o, n) ==
    IF StartsWithQuote(o) THEN CharCodes(substring(o, 1, Len(o) - 1))
    ELSE <<IF n.nan THEN 0 ELSE LoByte(n.v)>>

RECURSIVE DbBytes(_)
\* the bytes of the operands of a DB
DbBytes(operands) ==
    IF Len(operands) = 0 THEN <<>>
    ELSE DbOperand(Head(operands), parseNumber(Head(operands))) \o DbBytes(Tail(operands))

\* machineCode[offset++] = b for each byte
Pass2Emit(st, mapped, bytes) ==
    [st EXCEPT !.sourceMap = mapped,
               !.machineCode = Emit(@, st.offset, bytes),
               !.offset = @ + Len(bytes)]

\* the try block around encodeInstruction in pass 2
Pass2Encoded(st, mapped, lineIndex, enc) ==
    IF Threw(enc)
    THEN [st EXCEPT !.sourceMap = mapped,
                    !.errors = Append(@, [line |-> lineIndex + 1, err |-> enc.err])]
    ELSE Pass2Emit(st, mapped, enc.bytes)

\* pass 2 after sourceMap.set, raw being parts.operands[0]
Pass2Mapped(parts, lineIndex, labels, st, mapped, raw) ==
    IF parts.directive = ORG
    THEN (IF raw = UNDEFINED THEN [st EXCEPT !.thrown = TRUE]
          ELSE [st EXCEPT !.offset = OrgOffset(@, parseNumber(raw))])
    ELSE IF parts.directive = DB
    THEN (IF raw = UNDEFINED THEN [st EXCEPT !.sourceMap = mapped, !.thrown = TRUE]
          ELSE Pass2Emit(st, mapped,
                         IF StartsWithQuote(raw) THEN CharCodes(substring(raw, 1, Len(raw) - 1))
                         ELSE DbBytes(parts.operands)))
    ELSE IF Truthy(parts.instruction)
    THEN Pass2Encoded(st, mapped, lineIndex,
                      encodeInstruction(parts.instruction, parts.operands, labels,
                                        st.offset, FALSE))
    ELSE [st EXCEPT !.sourceMap = mapped]

\* one line of pass 2 with sourceMap.set on every line that is not empty
Pass2LineMappingEveryLine(parts, lineIndex, labels, st) ==
    IF parts.null THEN st
    ELSE Pass2Mapped(parts, lineIndex, labels, st,
                     MapSet(st.sourceMap, st.offset, lineIndex),
                     Arg(parts.operands, 0))

\* one line of pass 2, parts being parseLine(line); lineIndex is 0-based
Pass2Line(parts, lineIndex, labels, st) ==
    IF parts.null THEN st
    ELSE Pass2Mapped(parts, lineIndex, labels, st,
                     IF Truthy(parts.instruction) \/ parts.directive \in {DB, DW}
                     THEN MapSet(st.sourceMap, st.offset, lineIndex) ELSE st.sourceMap,
                     Arg(parts.operands, 0))

RECURSIVE Pass2(_, _, _, _)
\* lines.forEach of pass 2 from line i on
Pass2(lines, i, labels, st) ==
    IF i > Len(lines) \/ st.thrown THEN st
    ELSE Pass2(lines, i + 1, labels,
               Pass2Line(parseLine(lines[i]), i - 1, labels, st))

\* return { machineCode, startAddress, errors, sourceMap }, or the TypeError
CompileResult(p1, p2) ==
    [thrown |-> p1.thrown \/ p2.thrown,
     machineCode |-> p2.machineCode, startAddress |-> 256,
     errors |-> p2.errors, sourceMap |-> p2.sourceMap]

\* pass 2 with the labels of pass 1; offset = startOffset
CompilePass2(lines, p1) ==
    CompileResult(p1, Pass2(lines, 1, p1.labels,
                            [offset |-> 256, machineCode |-> EmptyMemory,
                             errors |-> <<>>, sourceMap |-> [x \in {} |-> 0],
                             thrown |-> FALSE]))

\* The source text is the sequence of its lines (source.split('\n')).
compile(lines) ==
    CompilePass2(lines, Pass1(lines, 1, [labels |-> [n \in {} |-> 0], offset |-> 256,
                                         thrown |-> FALSE]))

-----------------------------------------------------------------------------
(* The source texts the editor holds in the model *)

\* the source text of each program of the model, as the sequence of its lines
Source ==
    \* the hello-world shape of SAMPLE_PROGRAM, with the text Hi
    \*     MOV AH, 09h
    \*     MOV DX, msg
    \*     INT 21h
    \*     HLT
    \*     msg: DB "Hi$"
    ("hello" :> <<<<"M", "O", "V", " ", "A", "H", ",", " ", "0", "9", "h">>,
          <<"M", "O", "V", " ", "D", "X", ",", " ", "m", "s", "g">>,
          <<"I", "N", "T", " ", "2", "1", "h">>,
          <<"H", "L", "T">>,
          <<"m", "s", "g", ":", " ", "D", "B", " ", "\"", "H", "i", "$", "\"">>>>) @@
    \* a DIV by a zero divisor
    \*     MOV AX, 10
    \*     MOV BL, 0
    \*     DIV BL
    \*     HLT
    ("div0" :> <<<<"M", "O", "V", " ", "A", "X", ",", " ", "1", "0">>,
          <<"M", "O", "V", " ", "B", "L", ",", " ", "0">>,
          <<"D", "I", "V", " ", "B", "L">>,
          <<"H", "L", "T">>>>) @@
    \* instructions after a HLT
    \*     MOV AX, 1
    \*     HLT
    \*     INC AX
    \*     INC AX
    ("halt" :> <<<<"M", "O", "V", " ", "A", "X", ",", " ", "1">>,
          <<"H", "L", "T">>,
          <<"I", "N", "C", " ", "A", "X">>,
          <<"I", "N", "C", " ", "A", "X">>>>) @@
    \* an 8-bit DIV whose quotient fits AL
    \*     MOV AX, 1000
    \*     MOV BL, 7
    \*     DIV BL
    \*     HLT
    ("div8" :> <<<<"M", "O", "V", " ", "A", "X", ",", " ", "1", "0", "0", "0">>,
          <<"M", "O", "V", " ", "B", "L", ",", " ", "7">>,
          <<"D", "I", "V", " ", "B", "L">>,
          <<"H", "L", "T">>>>) @@
    \* an 8-bit DIV whose quotient exceeds 0xFF
    \*     MOV AX, 1000
    \*     MOV BL, 2
    \*     DIV BL
    \*     HLT
    ("div8over" :> <<<<"M", "O", "V", " ", "A", "X", ",", " ", "1", "0", "0", "0">>,
          <<"M", "O", "V", " ", "B", "L", ",", " ", "2">>,
          <<"D", "I", "V", " ", "B", "L">>,
          <<"H", "L", "T">>>>) @@
    \* a 16-bit DIV with DX below 0x8000 whose quotient fits AX
    \*     MOV DX, 2
    \*     MOV AX, 5
    \*     MOV BX, 3
    \*     DIV BX
    \*     HLT
    ("div16" :> <<<<"M", "O", "V", " ", "D", "X", ",", " ", "2">>,
          <<"M", "O", "V", " ", "A", "X", ",", " ", "5">>,
          <<"M", "O", "V", " ", "B", "X", ",", " ", "3">>,
          <<"D", "I", "V", " ", "B", "X">>,
          <<"H", "L", "T">>>>) @@
    \* a 16-bit DIV with DX below 0x8000 whose quotient exceeds 0xFFFF
    \*     MOV DX, 2
    \*     MOV AX, 5
    \*     MOV BX, 1
    \*     DIV BX
    \*     HLT
    ("div16over" :> <<<<"M", "O", "V", " ", "D", "X", ",", " ", "2">>,
          <<"M", "O", "V", " ", "A", "X", ",", " ", "5">>,
          <<"M", "O", "V", " ", "B", "X", ",", " ", "1">>,
          <<"D", "I", "V", " ", "B", "X">>,
          <<"H", "L", "T">>>>) @@
    \* a 16-bit DIV with DX at 0x8000 whose quotient fits AX
    \*     MOV DX, 8000h
    \*     MOV AX, 0
    \*     MOV BX, 0FFFFh
    \*     DIV BX
    \*     HLT
    ("div16high" :> <<<<"M", "O", "V", " ", "D", "X", ",", " ", "8", "0", "0", "0", "h">>,
          <<"M", "O", "V", " ", "A", "X", ",", " ", "0">>,
          <<"M", "O", "V", " ", "B", "X", ",", " ", "0", "F", "F", "F", "F", "h">>,
          <<"D", "I", "V", " ", "B", "X">>,
          <<"H", "L", "T">>>>) @@
    \* a 16-bit DIV with DX at 0x8000 whose quotient exceeds 0xFFFF
    \*     MOV DX, 8000h
    \*     MOV BX, 1
    \*     DIV BX
    \*     HLT
    ("div16highover" :> <<<<"M", "O", "V", " ", "D", "X", ",", " ", "8", "0", "0", "0", "h">>,
          <<"M", "O", "V", " ", "B", "X", ",", " ", "1">>,
          <<"D", "I", "V", " ", "B", "X">>,
          <<"H", "L", "T">>>>) @@
    \* DEC of a variable in memory
    \*     INC AX
    \*     DEC var
    \*     HLT
    \*     var: DB 5
    ("decmem" :> <<<<"I", "N", "C", " ", "A", "X">>,
          <<"D", "E", "C", " ", "v", "a", "r">>,
          <<"H", "L", "T">>,
          <<"v", "a", "r", ":", " ", "D", "B", " ", "5">>>>) @@
    \* ADD into a memory operand from a register
    \*     MOV AL, 3
    \*     ADD [200h], AL
    \*     HLT
    ("addmem" :> <<<<"M", "O", "V", " ", "A", "L", ",", " ", "3">>,
          <<"A", "D", "D", " ", "[", "2", "0", "0", "h", "]", ",", " ", "A", "L">>,
          <<"H", "L", "T">>>>) @@
    \* register, immediate, direct-memory and indexed operands
    \*     MOV SI, 1
    \*     MOV AX, arr[SI]
    \*     ADD AX, BX
    \*     ADD AX, 5
    \*     SUB AX, [var]
    \*     CMP AX, arr[SI]
    \*     ADD [var], 2
    \*     INC arr[SI]
    \*     MUL BL
    \*     NOT AX
    \*     HLT
    \*     var DB 7, 0
    \*     arr DB 1, 2, 3
    ("shapes" :> <<<<"M", "O", "V", " ", "S", "I", ",", " ", "1">>,
          <<"M", "O", "V", " ", "A", "X", ",", " ", "a", "r", "r", "[", "S", "I", "]">>,
          <<"A", "D", "D", " ", "A", "X", ",", " ", "B", "X">>,
          <<"A", "D", "D", " ", "A", "X", ",", " ", "5">>,
          <<"S", "U", "B", " ", "A", "X", ",", " ", "[", "v", "a", "r", "]">>,
          <<"C", "M", "P", " ", "A", "X", ",", " ", "a", "r", "r", "[", "S", "I", "]">>,
          <<"A", "D", "D", " ", "[", "v", "a", "r", "]", ",", " ", "2">>,
          <<"I", "N", "C", " ", "a", "r", "r", "[", "S", "I", "]">>,
          <<"M", "U", "L", " ", "B", "L">>,
          <<"N", "O", "T", " ", "A", "X">>,
          <<"H", "L", "T">>,
          <<"v", "a", "r", " ", "D", "B", " ", "7", ",", " ", "0">>,
          <<"a", "r", "r", " ", "D", "B", " ", "1", ",", " ", "2", ",", " ", "3">>>>) @@
    \* a LOOP and a conditional jump
    \*     MOV CX, 2
    \*     again: INC AX
    \*     LOOP again
    \*     CMP AX, 2
    \*     JE done
    \*     INC BX
    \*     done: HLT
    ("loop" :> <<<<"M", "O", "V", " ", "C", "X", ",", " ", "2">>,
          <<"a", "g", "a", "i", "n", ":", " ", "I", "N", "C", " ", "A", "X">>,
          <<"L", "O", "O", "P", " ", "a", "g", "a", "i", "n">>,
          <<"C", "M", "P", " ", "A", "X", ",", " ", "2">>,
          <<"J", "E", " ", "d", "o", "n", "e">>,
          <<"I", "N", "C", " ", "B", "X">>,
          <<"d", "o", "n", "e", ":", " ", "H", "L", "T">>>>) @@
    \* an instruction in the last byte of memory
    \*     JMP far
    \*     ORG 0FFFFh
    \*     far: NOP
    ("edge" :> <<<<"J", "M", "P", " ", "f", "a", "r">>,
          <<"O", "R", "G", " ", "0", "F", "F", "F", "F", "h">>,
          <<"f", "a", "r", ":", " ", "N", "O", "P">>>>) @@
    \* stores and read-modify-write operations on memory
    \*     MOV AX, 1234h
    \*     MOV [200h], AX
    \*     ADD [200h], 1
    \*     INC [200h]
    \*     HLT
    ("store" :> <<<<"M", "O", "V", " ", "A", "X", ",", " ", "1", "2", "3", "4", "h">>,
          <<"M", "O", "V", " ", "[", "2", "0", "0", "h", "]", ",", " ", "A", "X">>,
          <<"A", "D", "D", " ", "[", "2", "0", "0", "h", "]", ",", " ", "1">>,
          <<"I", "N", "C", " ", "[", "2", "0", "0", "h", "]">>,
          <<"H", "L", "T">>>>) @@
    \* a 16-bit store at the last byte of memory
    \*     MOV AX, 1234h
    \*     MOV [0FFFFh], AX
    \*     HLT
    ("fault" :> <<<<"M", "O", "V", " ", "A", "X", ",", " ", "1", "2", "3", "4", "h">>,
          <<"M", "O", "V", " ", "[", "0", "F", "F", "F", "F", "h", "]", ",", " ", "A", "X">>,
          <<"H", "L", "T">>>>) @@
    \* lines the second pass rejects
    \*     MOV AX, [BX]
    \*     FOO 1
    \*     HLT
    ("bad" :> <<<<"M", "O", "V", " ", "A", "X", ",", " ", "[", "B", "X", "]">>,
          <<"F", "O", "O", " ", "1">>,
          <<"H", "L", "T">>>>) @@
    \* a DW between two instructions
    \*     JMP after
    \*     w: DW 1234h
    \*     after: HLT
    ("word" :> <<<<"J", "M", "P", " ", "a", "f", "t", "e", "r">>,
          <<"w", ":", " ", "D", "W", " ", "1", "2", "3", "4", "h">>,
          <<"a", "f", "t", "e", "r", ":", " ", "H", "L", "T">>>>) @@
    \* a symbol defined with EQU and used as an operand
    \*     MAX EQU 5
    \*     MOV AX, MAX
    \*     HLT
    ("equ" :> <<<<"M", "A", "X", " ", "E", "Q", "U", " ", "5">>,
          <<"M", "O", "V", " ", "A", "X", ",", " ", "M", "A", "X">>,
          <<"H", "L", "T">>>>) @@
    \* JL after CMP of 10 with 20, then of 8000h with 1
    \*     MOV AX, 10
    \*     MOV BX, 20
    \*     CMP AX, BX
    \*     JL less
    \*     HLT
    \*     less: MOV AX, 8000h
    \*     MOV BX, 1
    \*     CMP AX, BX
    \*     JL low
    \*     INC CX
    \*     low: HLT
    ("signed" :> <<<<"M", "O", "V", " ", "A", "X", ",", " ", "1", "0">>,
          <<"M", "O", "V", " ", "B", "X", ",", " ", "2", "0">>,
          <<"C", "M", "P", " ", "A", "X", ",", " ", "B", "X">>,
          <<"J", "L", " ", "l", "e", "s", "s">>,
          <<"H", "L", "T">>,
          <<"l", "e", "s", "s", ":", " ", "M", "O", "V", " ", "A", "X", ",", " ", "8", "0", "0", "0", "h">>,
          <<"M", "O", "V", " ", "B", "X", ",", " ", "1">>,
          <<"C", "M", "P", " ", "A", "X", ",", " ", "B", "X">>,
          <<"J", "L", " ", "l", "o", "w">>,
          <<"I", "N", "C", " ", "C", "X">>,
          <<"l", "o", "w", ":", " ", "H", "L", "T">>>>) @@
    \* INT 21h function 09h on a text that ends with $
    \*     MOV AH, 09h
    \*     MOV DX, 10Bh
    \*     INT 21h
    \*     HLT
    \*     msg: DB "Hi$"
    ("print" :> <<<<"M", "O", "V", " ", "A", "H", ",", " ", "0", "9", "h">>,
          <<"M", "O", "V", " ", "D", "X", ",", " ", "1", "0", "B", "h">>,
          <<"I", "N", "T", " ", "2", "1", "h">>,
          <<"H", "L", "T">>,
          <<"m", "s", "g", ":", " ", "D", "B", " ", "\"", "H", "i", "$", "\"">>>>) @@
    \* INT 21h function 09h with no $ up to the end of memory
    \*     MOV AH, 09h
    \*     MOV DX, 0FFFEh
    \*     INT 21h
    \*     HLT
    ("nodollar" :> <<<<"M", "O", "V", " ", "A", "H", ",", " ", "0", "9", "h">>,
          <<"M", "O", "V", " ", "D", "X", ",", " ", "0", "F", "F", "F", "E", "h">>,
          <<"I", "N", "T", " ", "2", "1", "h">>,
          <<"H", "L", "T">>>>) @@
    \* an instruction whose second operand is missing
    \*     MOV AX
    \*     HLT
    ("short" :> <<<<"M", "O", "V", " ", "A", "X">>,
          <<"H", "L", "T">>>>) @@
    \* a DB without operand
    \*     HLT
    \*     DB
    ("bare" :> <<<<"H", "L", "T">>,
          <<"D", "B">>>>) @@
    \* a jump to its own address
    \*     JMP $
    ("self" :> <<<<"J", "M", "P", " ", "$">>>>) @@
    \* immediates wider than their 8-bit destination
    \*     MOV AL, 1FFh
    \*     ADD AL, 100h
    \*     SUB AL, 100h
    \*     AND AL, 1FFh
    \*     CMP AL, 0FF01h
    \*     HLT
    ("imm8" :> <<<<"M", "O", "V", " ", "A", "L", ",", " ", "1", "F", "F", "h">>,
          <<"A", "D", "D", " ", "A", "L", ",", " ", "1", "0", "0", "h">>,
          <<"S", "U", "B", " ", "A", "L", ",", " ", "1", "0", "0", "h">>,
          <<"A", "N", "D", " ", "A", "L", ",", " ", "1", "F", "F", "h">>,
          <<"C", "M", "P", " ", "A", "L", ",", " ", "0", "F", "F", "0", "1", "h">>,
          <<"H", "L", "T">>>>) @@
    \* an indexed access whose base plus index passes 0xFFFF
    \*     MOV SI, 0FFFFh
    \*     MOV AL, arr[SI]
    \*     MOV arr[SI], AL
    \*     HLT
    \*     arr: DB 7
    ("wrap" :> <<<<"M", "O", "V", " ", "S", "I", ",", " ", "0", "F", "F", "F", "F", "h">>,
          <<"M", "O", "V", " ", "A", "L", ",", " ", "a", "r", "r", "[", "S", "I", "]">>,
          <<"M", "O", "V", " ", "a", "r", "r", "[", "S", "I", "]", ",", " ", "A", "L">>,
          <<"H", "L", "T">>,
          <<"a", "r", "r", ":", " ", "D", "B", " ", "7">>>>) @@
    \* operands that are neither a number nor a label
    \*     MOV AX, zz
    \*     INT zz
    \*     DB zz
    ("nan" :> <<<<"M", "O", "V", " ", "A", "X", ",", " ", "z", "z">>,
          <<"I", "N", "T", " ", "z", "z">>,
          <<"D", "B", " ", "z", "z">>>>) @@
    \* ADD, SUB and CMP into direct and indexed memory operands
    \*     MOV AL, 1
    \*     MOV SI, 1
    \*     ADD arr[SI], AL
    \*     ADD arr[SI], 255
    \*     SUB [v], AL
    \*     SUB [v], 9
    \*     CMP [v], AL
    \*     CMP [v], 3
    \*     CMP arr[SI], AL
    \*     CMP arr[SI], 2
    \*     HLT
    \*     v DB 7
    \*     arr DB 1, 2, 3
    ("memflags" :> <<<<"M", "O", "V", " ", "A", "L", ",", " ", "1">>,
          <<"M", "O", "V", " ", "S", "I", ",", " ", "1">>,
          <<"A", "D", "D", " ", "a", "r", "r", "[", "S", "I", "]", ",", " ", "A", "L">>,
          <<"A", "D", "D", " ", "a", "r", "r", "[", "S", "I", "]", ",", " ", "2", "5", "5">>,
          <<"S", "U", "B", " ", "[", "v", "]", ",", " ", "A", "L">>,
          <<"S", "U", "B", " ", "[", "v", "]", ",", " ", "9">>,
          <<"C", "M", "P", " ", "[", "v", "]", ",", " ", "A", "L">>,
          <<"C", "M", "P", " ", "[", "v", "]", ",", " ", "3">>,
          <<"C", "M", "P", " ", "a", "r", "r", "[", "S", "I", "]", ",", " ", "A", "L">>,
          <<"C", "M", "P", " ", "a", "r", "r", "[", "S", "I", "]", ",", " ", "2">>,
          <<"H", "L", "T">>,
          <<"v", " ", "D", "B", " ", "7">>,
          <<"a", "r", "r", " ", "D", "B", " ", "1", ",", " ", "2", ",", " ", "3">>>>) @@
    \* an ADD into memory whose result is zero
    \*     ADD [200h], AL
    \*     HLT
    ("addzero" :> <<<<"A", "D", "D", " ", "[", "2", "0", "0", "h", "]", ",", " ", "A", "L">>,
          <<"H", "L", "T">>>>) @@
    \* a SUB into an indexed memory operand
    \*     MOV AL, 1
    \*     SUB arr[SI], AL
    \*     HLT
    \*     arr DB 1
    ("subidx" :> <<<<"M", "O", "V", " ", "A", "L", ",", " ", "1">>,
          <<"S", "U", "B", " ", "a", "r", "r", "[", "S", "I", "]", ",", " ", "A", "L">>,
          <<"H", "L", "T">>,
          <<"a", "r", "r", " ", "D", "B", " ", "1">>>>) @@
    \* a counted loop of three rounds
    \*     MOV CX, 3
    \*     MOV AX, 0
    \*     top: INC AX
    \*     LOOP top
    \*     HLT
    ("count" :> <<<<"M", "O", "V", " ", "C", "X", ",", " ", "3">>,
          <<"M", "O", "V", " ", "A", "X", ",", " ", "0">>,
          <<"t", "o", "p", ":", " ", "I", "N", "C", " ", "A", "X">>,
          <<"L", "O", "O", "P", " ", "t", "o", "p">>,
          <<"H", "L", "T">>>>) @@
    \* a LOOP entered with CX = 0
    \*     LOOP skip
    \*     INC AX
    \*     skip: HLT
    ("loopzero" :> <<<<"L", "O", "O", "P", " ", "s", "k", "i", "p">>,
          <<"I", "N", "C", " ", "A", "X">>,
          <<"s", "k", "i", "p", ":", " ", "H", "L", "T">>>>) @@
    \* every two-operand instruction with two memory operands, between two data lines
    \*     v DB 1
    \*     MOV [200h], [200h]
    \*     MOV [200h], v
    \*     MOV [200h], arr[SI]
    \*     MOV v, [200h]
    \*     MOV v, v
    \*     MOV v, arr[SI]
    \*     MOV arr[SI], [200h]
    \*     MOV arr[SI], v
    \*     MOV arr[SI], arr[SI]
    \*     ADD [200h], [200h]
    \*     ADD [200h], v
    \*     ADD [200h], arr[SI]
    \*     ADD v, [200h]
    \*     ADD v, v
    \*     ADD v, arr[SI]
    \*     ADD arr[SI], [200h]
    \*     ADD arr[SI], v
    \*     ADD arr[SI], arr[SI]
    \*     SUB [200h], [200h]
    \*     SUB [200h], v
    \*     SUB [200h], arr[SI]
    \*     SUB v, [200h]
    \*     SUB v, v
    \*     SUB v, arr[SI]
    \*     SUB arr[SI], [200h]
    \*     SUB arr[SI], v
    \*     SUB arr[SI], arr[SI]
    \*     AND [200h], [200h]
    \*     AND [200h], v
    \*     AND [200h], arr[SI]
    \*     AND v, [200h]
    \*     AND v, v
    \*     AND v, arr[SI]
    \*     AND arr[SI], [200h]
    \*     AND arr[SI], v
    \*     AND arr[SI], arr[SI]
    \*     OR [200h], [200h]
    \*     OR [200h], v
    \*     OR [200h], arr[SI]
    \*     OR v, [200h]
    \*     OR v, v
    \*     OR v, arr[SI]
    \*     OR arr[SI], [200h]
    \*     OR arr[SI], v
    \*     OR arr[SI], arr[SI]
    \*     XOR [200h], [200h]
    \*     XOR [200h], v
    \*     XOR [200h], arr[SI]
    \*     XOR v, [200h]
    \*     XOR v, v
    \*     XOR v, arr[SI]
    \*     XOR arr[SI], [200h]
    \*     XOR arr[SI], v
    \*     XOR arr[SI], arr[SI]
    \*     CMP [200h], [200h]
    \*     CMP [200h], v
    \*     CMP [200h], arr[SI]
    \*     CMP v, [200h]
    \*     CMP v, v
    \*     CMP v, arr[SI]
    \*     CMP arr[SI], [200h]
    \*     CMP arr[SI], v
    \*     CMP arr[SI], arr[SI]
    \*     HLT
    \*     arr DB 1, 2
    ("memmem" :> <<<<"v", " ", "D", "B", " ", "1">>,
          <<"M", "O", "V", " ", "[", "2", "0", "0", "h", "]", ",", " ", "[", "2", "0", "0", "h", "]">>,
          <<"M", "O", "V", " ", "[", "2", "0", "0", "h", "]", ",", " ", "v">>,
          <<"M", "O", "V", " ", "[", "2", "0", "0", "h", "]", ",", " ", "a", "r", "r", "[", "S", "I", "]">>,
          <<"M", "O", "V", " ", "v", ",", " ", "[", "2", "0", "0", "h", "]">>,
          <<"M", "O", "V", " ", "v", ",", " ", "v">>,
          <<"M", "O", "V", " ", "v", ",", " ", "a", "r", "r", "[", "S", "I", "]">>,
          <<"M", "O", "V", " ", "a", "r", "r", "[", "S", "I", "]", ",", " ", "[", "2", "0", "0", "h", "]">>,
          <<"M", "O", "V", " ", "a", "r", "r", "[", "S", "I", "]", ",", " ", "v">>,
          <<"M", "O", "V", " ", "a", "r", "r", "[", "S", "I", "]", ",", " ", "a", "r", "r", "[", "S", "I", "]">>,
          <<"A", "D", "D", " ", "[", "2", "0", "0", "h", "]", ",", " ", "[", "2", "0", "0", "h", "]">>,
          <<"A", "D", "D", " ", "[", "2", "0", "0", "h", "]", ",", " ", "v">>,
          <<"A", "D", "D", " ", "[", "2", "0", "0", "h", "]", ",", " ", "a", "r", "r", "[", "S", "I", "]">>,
          <<"A", "D", "D", " ", "v", ",", " ", "[", "2", "0", "0", "h", "]">>,
          <<"A", "D", "D", " ", "v", ",", " ", "v">>,
          <<"A", "D", "D", " ", "v", ",", " ", "a", "r", "r", "[", "S", "I", "]">>,
          <<"A", "D", "D", " ", "a", "r", "r", "[", "S", "I", "]", ",", " ", "[", "2", "0", "0", "h", "]">>,
          <<"A", "D", "D", " ", "a", "r", "r", "[", "S", "I", "]", ",", " ", "v">>,
          <<"A", "D", "D", " ", "a", "r", "r", "[", "S", "I", "]", ",", " ", "a", "r", "r", "[", "S", "I", "]">>,
          <<"S", "U", "B", " ", "[", "2", "0", "0", "h", "]", ",", " ", "[", "2", "0", "0", "h", "]">>,
          <<"S", "U", "B", " ", "[", "2", "0", "0", "h", "]", ",", " ", "v">>,
          <<"S", "U", "B", " ", "[", "2", "0", "0", "h", "]", ",", " ", "a", "r", "r", "[", "S", "I", "]">>,
          <<"S", "U", "B", " ", "v", ",", " ", "[", "2", "0", "0", "h", "]">>,
          <<"S", "U", "B", " ", "v", ",", " ", "v">>,
          <<"S", "U", "B", " ", "v", ",", " ", "a", "r", "r", "[", "S", "I", "]">>,
          <<"S", "U", "B", " ", "a", "r", "r", "[", "S", "I", "]", ",", " ", "[", "2", "0", "0", "h", "]">>,
          <<"S", "U", "B", " ", "a", "r", "r", "[", "S", "I", "]", ",", " ", "v">>,
          <<"S", "U", "B", " ", "a", "r", "r", "[", "S", "I", "]", ",", " ", "a", "r", "r", "[", "S", "I", "]">>,
          <<"A", "N", "D", " ", "[", "2", "0", "0", "h", "]", ",", " ", "[", "2", "0", "0", "h", "]">>,
          <<"A", "N", "D", " ", "[", "2", "0", "0", "h", "]", ",", " ", "v">>,
          <<"A", "N", "D", " ", "[", "2", "0", "0", "h", "]", ",", " ", "a", "r", "r", "[", "S", "I", "]">>,
          <<"A", "N", "D", " ", "v", ",", " ", "[", "2", "0", "0", "h", "]">>,
          <<"A", "N", "D", " ", "v", ",", " ", "v">>,
          <<"A", "N", "D", " ", "v", ",", " ", "a", "r", "r", "[", "S", "I", "]">>,
          <<"A", "N", "D", " ", "a", "r", "r", "[", "S", "I", "]", ",", " ", "[", "2", "0", "0", "h", "]">>,
          <<"A", "N", "D", " ", "a", "r", "r", "[", "S", "I", "]", ",", " ", "v">>,
          <<"A", "N", "D", " ", "a", "r", "r", "[", "S", "I", "]", ",", " ", "a", "r", "r", "[", "S", "I", "]">>,
          <<"O", "R", " ", "[", "2", "0", "0", "h", "]", ",", " ", "[", "2", "0", "0", "h", "]">>,
          <<"O", "R", " ", "[", "2", "0", "0", "h", "]", ",", " ", "v">>,
          <<"O", "R", " ", "[", "2", "0", "0", "h", "]", ",", " ", "a", "r", "r", "[", "S", "I", "]">>,
          <<"O", "R", " ", "v", ",", " ", "[", "2", "0", "0", "h", "]">>,
          <<"O", "R", " ", "v", ",", " ", "v">>,
          <<"O", "R", " ", "v", ",", " ", "a", "r", "r", "[", "S", "I", "]">>,
          <<"O", "R", " ", "a", "r", "r", "[", "S", "I", "]", ",", " ", "[", "2", "0", "0", "h", "]">>,
          <<"O", "R", " ", "a", "r", "r", "[", "S", "I", "]", ",", " ", "v">>,
          <<"O", "R", " ", "a", "r", "r", "[", "S", "I", "]", ",", " ", "a", "r", "r", "[", "S", "I", "]">>,
          <<"X", "O", "R", " ", "[", "2", "0", "0", "h", "]", ",", " ", "[", "2", "0", "0", "h", "]">>,
          <<"X", "O", "R", " ", "[", "2", "0", "0", "h", "]", ",", " ", "v">>,
          <<"X", "O", "R", " ", "[", "2", "0", "0", "h", "]", ",", " ", "a", "r", "r", "[", "S", "I", "]">>,
          <<"X", "O", "R", " ", "v", ",", " ", "[", "2", "0", "0", "h", "]">>,
          <<"X", "O", "R", " ", "v", ",", " ", "v">>,
          <<"X", "O", "R", " ", "v", ",", " ", "a", "r", "r", "[", "S", "I", "]">>,
          <<"X", "O", "R", " ", "a", "r", "r", "[", "S", "I", "]", ",", " ", "[", "2", "0", "0", "h", "]">>,
          <<"X", "O", "R", " ", "a", "r", "r", "[", "S", "I", "]", ",", " ", "v">>,
          <<"X", "O", "R", " ", "a", "r", "r", "[", "S", "I", "]", ",", " ", "a", "r", "r", "[", "S", "I", "]">>,
          <<"C", "M", "P", " ", "[", "2", "0", "0", "h", "]", ",", " ", "[", "2", "0", "0", "h", "]">>,
          <<"C", "M", "P", " ", "[", "2", "0", "0", "h", "]", ",", " ", "v">>,
          <<"C", "M", "P", " ", "[", "2", "0", "0", "h", "]", ",", " ", "a", "r", "r", "[", "S", "I", "]">>,
          <<"C", "M", "P", " ", "v", ",", " ", "[", "2", "0", "0", "h", "]">>,
          <<"C", "M", "P", " ", "v", ",", " ", "v">>,
          <<"C", "M", "P", " ", "v", ",", " ", "a", "r", "r", "[", "S", "I", "]">>,
          <<"C", "M", "P", " ", "a", "r", "r", "[", "S", "I", "]", ",", " ", "[", "2", "0", "0", "h", "]">>,
          <<"C", "M", "P", " ", "a", "r", "r", "[", "S", "I", "]", ",", " ", "v">>,
          <<"C", "M", "P", " ", "a", "r", "r", "[", "S", "I", "]", ",", " ", "a", "r", "r", "[", "S", "I", "]">>,
          <<"H", "L", "T">>,
          <<"a", "r", "r", " ", "D", "B", " ", "1", ",", " ", "2">>>>) @@
    \* a forward reference to a label that reads as a hexadecimal number
    \*     INC each
    \*     HLT
    \*     each: DB 5
    ("fwdhex" :> <<<<"I", "N", "C", " ", "e", "a", "c", "h">>,
          <<"H", "L", "T">>,
          <<"e", "a", "c", "h", ":", " ", "D", "B", " ", "5">>>>) @@
    \* the same reference backward
    \*     JMP start
    \*     each: DB 5
    \*     start: INC each
    \*     HLT
    ("backhex" :> <<<<"J", "M", "P", " ", "s", "t", "a", "r", "t">>,
          <<"e", "a", "c", "h", ":", " ", "D", "B", " ", "5">>,
          <<"s", "t", "a", "r", "t", ":", " ", "I", "N", "C", " ", "e", "a", "c", "h">>,
          <<"H", "L", "T">>>>) @@
    \* instructions between a comment, an ORG, a blank line and lines that hold a label only
    \*     ; a comment
    \*     ORG 100h
    \*     
    \*     start:
    \*     MOV AX, 1   ; one
    \*     next: INC AX
    \*     JMP done
    \*     d: DB 1, 2
    \*     done:
    \*     HLT
    \*     fin:
    ("lines" :> <<<<";", " ", "a", " ", "c", "o", "m", "m", "e", "n", "t">>,
          <<"O", "R", "G", " ", "1", "0", "0", "h">>,
          <<>>,
          <<"s", "t", "a", "r", "t", ":">>,
          <<"M", "O", "V", " ", "A", "X", ",", " ", "1", " ", " ", " ", ";", " ", "o", "n", "e">>,
          <<"n", "e", "x", "t", ":", " ", "I", "N", "C", " ", "A", "X">>,
          <<"J", "M", "P", " ", "d", "o", "n", "e">>,
          <<"d", ":", " ", "D", "B", " ", "1", ",", " ", "2">>,
          <<"d", "o", "n", "e", ":">>,
          <<"H", "L", "T">>,
          <<"f", "i", "n", ":">>>>) @@
    \* a DB with a number followed by a string of two characters
    \*     JMP done
    \*     d: DB 1, "ab"
    \*     done: HLT
    ("dbmix" :> <<<<"J", "M", "P", " ", "d", "o", "n", "e">>,
          <<"d", ":", " ", "D", "B", " ", "1", ",", " ", "\"", "a", "b", "\"">>,
          <<"d", "o", "n", "e", ":", " ", "H", "L", "T">>>>) @@
    \* DB lines with a list of numbers, a string, a string followed by a number, and an ORG
    \*     JMP done
    \*     a: DB 1, 2, 3
    \*     b: DB "Hi"
    \*     c: DB "Hi", 0
    \*     ORG 120h
    \*     done: HLT
    ("dbgood" :> <<<<"J", "M", "P", " ", "d", "o", "n", "e">>,
          <<"a", ":", " ", "D", "B", " ", "1", ",", " ", "2", ",", " ", "3">>,
          <<"b", ":", " ", "D", "B", " ", "\"", "H", "i", "\"">>,
          <<"c", ":", " ", "D", "B", " ", "\"", "H", "i", "\"", ",", " ", "0">>,
          <<"O", "R", "G", " ", "1", "2", "0", "h">>,
          <<"d", "o", "n", "e", ":", " ", "H", "L", "T">>>>) @@
    \* a conditional jump to a label 252 bytes past its end
    \*     CMP AX, AX
    \*     JE far
    \*     HLT
    \*     ORG 200h
    \*     far: HLT
    ("far" :> <<<<"C", "M", "P", " ", "A", "X", ",", " ", "A", "X">>,
          <<"J", "E", " ", "f", "a", "r">>,
          <<"H", "L", "T">>,
          <<"O", "R", "G", " ", "2", "0", "0", "h">>,
          <<"f", "a", "r", ":", " ", "H", "L", "T">>>>) @@
    \* a LOOP to a label 250 bytes past its end
    \*     MOV CX, 2
    \*     LOOP far
    \*     HLT
    \*     ORG 200h
    \*     far: HLT
    ("farloop" :> <<<<"M", "O", "V", " ", "C", "X", ",", " ", "2">>,
          <<"L", "O", "O", "P", " ", "f", "a", "r">>,
          <<"H", "L", "T">>,
          <<"O", "R", "G", " ", "2", "0", "0", "h">>,
          <<"f", "a", "r", ":", " ", "H", "L", "T">>>>) @@
    \* a jump to the last three bytes of memory, which hold an INC and a zero byte
    \*     JMP tail
    \*     ORG 0FFFDh
    \*     tail: INC AX
    ("tail" :> <<<<"J", "M", "P", " ", "t", "a", "i", "l">>,
          <<"O", "R", "G", " ", "0", "F", "F", "F", "D", "h">>,
          <<"t", "a", "i", "l", ":", " ", "I", "N", "C", " ", "A", "X">>>>)

\* compile(sourceCode) for each source text
Compiled == [p \in DOMAIN Source |-> compile(Source[p])]

-----------------------------------------------------------------------------
(* Dashboard.tsx: the reducer *)

\* the STEP actions one timer callback dispatches
BatchSize == 10

\* STEP actions the model reduces after a load or a reset
MaxSteps == 12

\* case 'LOAD_PROGRAM'
LoadProgram(payload) ==
    [createInitialState EXCEPT !.memory = payload.code,
                               !.registers = [@ EXCEPT !.IP = payload.entry],
                               !.status = "idle"]

\* case 'STEP' after the call: res is what executeInstruction returned or threw.
\* The state object passed to it keeps its memory array, which the call may have
\* written
StepOutcome(state, res) ==
    IF res.thrown
    THEN [state EXCEPT !.memory = res.memory, !.status = "error", !.error = res.msg]
    ELSE [res.newState EXCEPT
              !.status = IF res.halted THEN "idle" ELSE @,
              !.logs = IF res.output.has /\ res.output.str.len > 0
                       THEN Append(state.logs, res.output.str) ELSE state.logs]

StepProgram(state) == StepOutcome(state, executeInstruction(state))

\* a reducer whose LOAD_PROGRAM writes the image and the entry into the state it
\* is given
cpuReducerLoadingInPlace(state, action) ==
    CASE action.type = "RESET" -> createInitialState
      [] action.type = "LOAD_PROGRAM" ->
             [state EXCEPT !.memory = action.payload.code,
                           !.registers = [@ EXCEPT !.IP = action.payload.entry],
                           !.status = "idle"]
      [] action.type = "STEP" -> StepProgram(state)
      [] action.type = "RUN_START" -> [state EXCEPT !.status = "running"]
      [] action.type = "RUN_STOP" -> [state EXCEPT !.status = "idle"]
      [] OTHER -> state

cpuReducer(state, action) ==
    CASE action.type = "RESET" -> createInitialState
      [] action.type = "LOAD_PROGRAM" -> LoadProgram(action.payload)
      [] action.type = "STEP" -> StepProgram(state)
      [] action.type = "RUN_START" -> [state EXCEPT !.status = "running"]
      [] action.type = "RUN_STOP" -> [state EXCEPT !.status = "idle"]
      [] OTHER -> state

\* what a reducer action other than STEP leaves in the history; source names the
\* text the COMPILE button last handed to compile, none before the first
Did(kind, source) ==
    [kind |-> kind, thrown |-> FALSE, msg |-> "", halted |-> FALSE,
     input |-> createInitialState, source |-> source]

\* what a STEP leaves in the history: how executeInstruction ended, and the state
\* object it was given as that object is after the call
StepRecord(kind, source, state, res) ==
    [kind |-> kind, thrown |-> res.thrown, msg |-> res.msg, halted |-> res.halted,
     input |-> [state EXCEPT !.memory = res.memory], source |-> source]

DidStep(kind, source, state) == StepRecord(kind, source, state, executeInstruction(state))

-----------------------------------------------------------------------------
(* Dashboard.tsx: the handlers and the run loop.  A STEP the timer callback has *)
(* dispatched and React has not yet reduced is counted in batch; React reduces  *)
(* the whole batch before it handles another event.                             *)

\* an effect that clears the interval only when the status is idle
RunLoopUnlessIdle(state) == state.status # "idle"

\* the run-loop effect after a render: the interval exists while status is running
RunLoop(state) == state.status = "running"

Init ==
    /\ cpu = createInitialState
    /\ interval = FALSE
    /\ batch = 0
    /\ loaded = "none"
    /\ pre = createInitialState
    /\ last = Did("init", "none")
    /\ stopped = FALSE
    /\ steps = 0

\* a COMPILE button that loads the image whenever compile returned, whatever
\* errors holds
handleCompileIgnoringErrors(p, result) ==
    /\ batch = 0
    /\ pre' = cpu
    /\ UNCHANGED batch
    /\ IF result.thrown
       THEN /\ last' = Did("toast", p)
            /\ UNCHANGED <<cpu, interval, loaded, stopped, steps>>
       ELSE /\ cpu' = cpuReducer(cpu, [type |-> "LOAD_PROGRAM",
                                       payload |-> [code |-> result.machineCode,
                                                    entry |-> result.startAddress]])
            /\ interval' = RunLoop(cpu')
            /\ loaded' = p
            /\ last' = Did(IF Len(result.errors) > 0 THEN "toast" ELSE "load", p)
            /\ stopped' = FALSE
            /\ steps' = 0

\* the COMPILE button, the editor holding the source text p: result is what
\* compile(sourceCode) returned, or its throw
handleCompile(p, result) ==
    /\ batch = 0
    /\ pre' = cpu
    /\ UNCHANGED batch
    /\ IF result.thrown \/ Len(result.errors) > 0
       THEN /\ last' = Did("toast", p)
            /\ UNCHANGED <<cpu, interval, loaded, stopped, steps>>
       ELSE /\ cpu' = cpuReducer(cpu, [type |-> "LOAD_PROGRAM",
                                       payload |-> [code |-> result.machineCode,
                                                    entry |-> result.startAddress]])
            /\ interval' = RunLoop(cpu')
            /\ loaded' = p
            /\ last' = Did("load", p)
            /\ stopped' = FALSE
            /\ steps' = 0

\* the STEP button
handleStep ==
    /\ batch = 0
    /\ steps < MaxSteps
    /\ cpu' = cpuReducer(cpu, [type |-> "STEP"])
    /\ interval' = RunLoop(cpu')
    /\ pre' = cpu
    /\ last' = DidStep("step", last.source, cpu)
    /\ stopped' = FALSE
    /\ steps' = steps + 1
    /\ UNCHANGED <<batch, loaded>>

\* the RUN button
RunStart ==
    /\ batch = 0
    /\ cpu' = cpuReducer(cpu, [type |-> "RUN_START"])
    /\ interval' = RunLoop(cpu')
    /\ pre' = cpu
    /\ last' = Did("run", last.source)
    /\ stopped' = FALSE
    /\ UNCHANGED <<batch, loaded, steps>>

\* the STOP button
RunStop ==
    /\ batch = 0
    /\ cpu' = cpuReducer(cpu, [type |-> "RUN_STOP"])
    /\ interval' = RunLoop(cpu')
    /\ pre' = cpu
    /\ last' = Did("stop", last.source)
    /\ UNCHANGED <<batch, loaded, stopped, steps>>

\* the RESET button
Reset ==
    /\ batch = 0
    /\ cpu' = cpuReducer(cpu, [type |-> "RESET"])
    /\ interval' = RunLoop(cpu')
    /\ loaded' = "none"
    /\ pre' = cpu
    /\ last' = Did("reset", last.source)
    /\ stopped' = FALSE
    /\ steps' = 0
    /\ UNCHANGED batch

\* the setInterval callback: it dispatches BatchSize STEP actions
TimerFire ==
    /\ interval
    /\ batch = 0
    /\ steps + BatchSize <= MaxSteps
    /\ batch' = BatchSize
    /\ pre' = cpu
    /\ last' = Did("timer", last.source)
    /\ UNCHANGED <<cpu, interval, loaded, stopped, steps>>

\* React reduces one STEP of the batch; the effect runs after the last one
BatchStep ==
    /\ batch > 0
    /\ cpu' = cpuReducer(cpu, [type |-> "STEP"])
    /\ batch' = batch - 1
    /\ interval' = IF batch' = 0 THEN RunLoop(cpu') ELSE interval
    /\ pre' = cpu
    /\ last' = DidStep("batch", last.source, cpu)
    /\ stopped' = (stopped \/ last'.halted \/ cpu'.status = "error")
    /\ steps' = steps + 1
    /\ UNCHANGED loaded

Next ==
    \/ \E p \in DOMAIN Source : handleCompile(p, Compiled[p])
    \/ handleStep
    \/ RunStart
    \/ RunStop
    \/ Reset
    \/ TimerFire
    \/ BatchStep

Spec == Init /\ [][Next]_vars

-----------------------------------------------------------------------------
(* executeInstruction as a function of the state it is given: one STEP on the   *)
(* state a load leaves, for each of a set of instructions, registers and flags  *)

\* the state after a load of the bytes code at 0x100, with the values regs of the
\* general registers and the flags given
UnitState(code, regs, flags) ==
    [LoadProgram([code |-> Emit(EmptyMemory, 256, code), entry |-> 256])
        EXCEPT !.registers = [r \in DOMAIN @ |-> IF r \in DOMAIN regs THEN regs[r] ELSE @[r]],
               !.flags = [f \in DOMAIN @ |-> IF f \in DOMAIN flags THEN flags[f] ELSE @[f]]]

\* the states the STEP is applied to: each conditional jump with each combination
\* of ZF, SF, OF and CF and displacements of both signs; MUL by AL, DL, BL, AH, BH,
\* AX, DX and BX with operands from zero to the largest; the instructions with a
\* register destination, the destination each byte register, the source each
\* register, an immediate, the byte at 0x108 and the byte at 0x108 + SI; the
\* instructions with a register and a memory operand, the register AL or AX and
\* the address 0xFFFF, direct or as 0xFFFD + SI; INT 21h and other interrupts
\* with AH from 0 to 0xFF, DX a character, the address of the text Hi$ or an
\* address with no $ after it, and two flags set
UnitStates ==
    LET words == {0, 1, 16, 255, 256, 4096, 32768, 65535}
        names == {"MOV", "ADD", "SUB", "AND", "OR", "XOR"}
        access == names \cup {"CMP"}
        regs == [AX |-> 4660, BX |-> 22271, CX |-> 39424, DX |-> 65408, SI |-> 2]
        data == <<0, 0, 0, 17, 34, 51>>
    IN  {UnitState(<<OPCODES[n \o "_REG_REG"], dest * 16 + src>>, regs, [ZF |-> FALSE]) :
            n \in names, dest \in 0..7, src \in 0..15}
        \cup
        {UnitState(<<OPCODES[n \o "_REG_IMM"], dest, imm % 256, imm \div 256>>, regs,
                   [ZF |-> FALSE]) :
            n \in names, dest \in 0..7, imm \in {0, 1, 255, 511}}
        \cup
        {UnitState(<<OPCODES[n \o "_REG_MEM"], dest, 8, hi, 0>> \o data, regs, [ZF |-> FALSE]) :
            n \in names, dest \in 0..7, hi \in {1, 255}}
        \cup
        {UnitState(<<OPCODES[n \o "_REG_INDEX"], dest, idx, 8, 1>> \o data, regs,
                   [ZF |-> FALSE]) :
            n \in names, dest \in 0..7, idx \in {11, 14}}
        \cup
        {UnitState(<<OPCODES[n], dest>>, regs, [ZF |-> FALSE]) :
            n \in {"NOT_REG", "INC_REG", "DEC_REG"}, dest \in 0..7}
        \cup
        {UnitState(<<OPCODES.INT, n, 72, 105, 36>>, [AX |-> ah * 256 + 7, DX |-> dx],
                   [ZF |-> TRUE, CF |-> TRUE]) :
            n \in {0, 16, 32, 33, 34}, ah \in {0, 1, 2, 9, 76, 255}, dx \in {65, 258, 321}}
        \cup
        {UnitState(<<OPCODES[n \o "_REG_MEM"], r, 255, 255>>, regs, [ZF |-> FALSE]) :
            n \in access, r \in {0, 8}}
        \cup
        {UnitState(<<OPCODES[n \o "_REG_INDEX"], r, 14, 253, 255>>, regs, [ZF |-> FALSE]) :
            n \in access, r \in {0, 8}}
        \cup
        {UnitState(<<OPCODES[n \o "_MEM_REG"], 255, 255, r>>, regs, [ZF |-> FALSE]) :
            n \in access, r \in {0, 8}}
        \cup
        {UnitState(<<OPCODES[n \o "_INDEX_REG"], 14, 253, 255, r>>, regs, [ZF |-> FALSE]) :
            n \in access, r \in {0, 8}}
        \cup
        {UnitState(<<OPCODES[JUMPS[m]], d>>, [AX |-> 0],
                   [ZF |-> z, SF |-> s, OF |-> o, CF |-> c]) :
            m \in DOMAIN JUMPS, d \in {0, 2, 127, 128, 254}, z \in BOOLEAN, s \in BOOLEAN,
            o \in BOOLEAN, c \in BOOLEAN}
        \cup
        {UnitState(<<OPCODES.MUL_REG, id>>, [AX |-> a, BX |-> b, DX |-> d], [ZF |-> FALSE]) :
            id \in {0, 2, 3, 4, 7, 8, 10, 11}, a \in words, b \in words, d \in {0, 4660}}

UnitInit ==
    /\ cpu \in UnitStates
    /\ interval = FALSE
    /\ batch = 0
    /\ loaded = "none"
    /\ pre = cpu
    /\ last = Did("init", "none")
    /\ stopped = FALSE
    /\ steps = 0

\* the STEP button, once
UnitStep == steps = 0 /\ handleStep

UnitSpec == UnitInit /\ [][UnitStep]_vars

------------------------------------------------------------------------------
(* The free run: a text compiled without errors has been loaded and RUN has     *)
(* been pressed; from then on only the interval callback and React act          *)

\* the state RUN_START leaves after the load of a text that compiled without errors
FreeRunInit ==
    /\ \E p \in {q \in DOMAIN Source : ~Compiled[q].thrown /\ Len(Compiled[q].errors) = 0} :
           /\ pre = cpuReducer(createInitialState,
                               [type |-> "LOAD_PROGRAM",
                                payload |-> [code |-> Compiled[p].machineCode,
                                             entry |-> Compiled[p].startAddress]])
           /\ cpu = cpuReducer(pre, [type |-> "RUN_START"])
           /\ loaded = p
           /\ last = Did("run", p)
    /\ interval = RunLoop(cpu)
    /\ batch = 0
    /\ stopped = FALSE
    /\ steps = 0

\* setInterval calls its callback every 50 ms while the interval is set, and React
\* reduces every STEP that was dispatched
FreeRunSpec ==
    /\ FreeRunInit
    /\ [][TimerFire \/ BatchStep]_vars
    /\ WF_vars(TimerFire)
    /\ WF_vars(BatchStep)

-----------------------------------------------------------------------------
(* Properties of the emulator *)

\* the last action reduced a STEP
IsStep == last.kind \in {"step", "batch"}

\* the offset the assembler gave the 0-based line of program p
LineAddress(p, line) ==
    CHOOSE a \in DOMAIN Compiled[p].sourceMap : Compiled[p].sourceMap[a] = line

\* the log entry of a text without NUL, given by its character codes
Text(codes) == [len |-> Len(codes), chars |-> [i \in 0..(Len(codes) - 1) |-> codes[i + 1]]]

GeneralRegisters == {"AX", "BX", "CX", "DX", "SP", "BP", "SI", "DI"}

RegistersInRange(state) == \A r \in GeneralRegisters : state.registers[r] \in 0..65535

\* C1: the hello-world program (MOV AH,09h / MOV DX,msg / INT 21h / HLT /
\* msg: DB "Hi$"), compiled, loaded and stepped four times, has halted with DX
\* the address of msg, the log exactly ["Hi"] and the status idle.
C1_HelloPrintsItsText ==
    (loaded = "hello" /\ IsStep /\ steps = 4)
        => /\ last.halted
           /\ cpu.registers.DX = LineAddress("hello", 4)
           /\ cpu.logs = <<Text(<<72, 105>>)>>
           /\ cpu.status = "idle"

\* the hello-world program has run to its HLT
C1_HelloHalted == loaded = "hello" /\ IsStep /\ steps = 4 /\ last.halted

\* C2: in free run, once a STEP of a batch has halted or left status error,
\* registers, flags, memory and logs stay as they are until the user issues RUN,
\* STEP, RESET or a new load (stopped is true from that STEP to that command).
C2_NoStepAfterHaltOrFault ==
    [][(stopped /\ stopped')
           => /\ cpu'.registers = cpu.registers
              /\ cpu'.flags = cpu.flags
              /\ cpu'.memory = cpu.memory
              /\ cpu'.logs = cpu.logs]_vars

\* a STEP of a batch has halted while STEP actions of the batch are still queued
C2_HaltedInsideBatch == stopped /\ last.kind = "batch" /\ last.halted /\ batch > 0

\* the instruction at IP is DIV r with r a register id
DivAt(state) ==
    /\ state.registers.IP \in 0..65534
    /\ Mem(state.memory, state.registers.IP) = OPCODES.DIV_REG
    /\ Mem(state.memory, state.registers.IP + 1) \in 0..15

\* the register operand of the DIV at IP, and its value
DivOperand(state) == Mem(state.memory, state.registers.IP + 1)

Divisor(state) == getReg(state.registers, DivOperand(state))

RECURSIVE LongDiv(_, _, _, _, _)
\* unsigned division of rem * 2^(i+1) + (ax mod 2^(i+1)) by r, bit by bit; q holds
\* the quotient bits found so far and rem < r
LongDiv(rem, q, ax, r, i) ==
    IF i < 0 THEN [quot |-> q, rem |-> rem]
    ELSE LET t == rem * 2 + ((ax \div (2 ^ i)) % 2)
         IN  IF t >= r THEN LongDiv(t - r, q * 2 + 1, ax, r, i - 1)
             ELSE LongDiv(t, q * 2, ax, r, i - 1)

\* what the DIV at IP is to do: its fault, or AX and DX after it.  The 8-bit form
\* divides AX, the 16-bit form the unsigned DX * 65536 + AX, whose quotient
\* exceeds 0xFFFF exactly when DX >= r
DivExpected(state) ==
    LET r == Divisor(state)
        ax == state.registers.AX
        dx == state.registers.DX
        wide == LongDiv(dx, 0, ax, r, 15)
    IN  IF r = 0 THEN [fault |-> "Divide by Zero", ax |-> ax, dx |-> dx]
        ELSE IF DivOperand(state) < 8
        THEN (IF ax \div r > 255 THEN [fault |-> "Divide Overflow", ax |-> ax, dx |-> dx]
              ELSE [fault |-> "none", ax |-> (ax % r) * 256 + (ax \div r), dx |-> dx])
        ELSE (IF dx >= r THEN [fault |-> "Divide Overflow", ax |-> ax, dx |-> dx]
              ELSE [fault |-> "none", ax |-> wide.quot, dx |-> wide.rem])

\* C3: executeInstruction throws when DIV has a zero divisor, and throws with the
\* distinct overflow message when the quotient exceeds the destination width; the
\* error field carries the message.
C3_DivFaultsAreThrown ==
    (IsStep /\ DivAt(pre) /\ RegistersInRange(pre) /\ DivExpected(pre).fault # "none")
        => /\ last.thrown
           /\ last.msg = DivExpected(pre).fault
           /\ cpu.error = DivExpected(pre).fault

\* a DIV with a zero divisor has executed
C3_DividedByZero == IsStep /\ DivAt(pre) /\ RegistersInRange(pre) /\ Divisor(pre) = 0

\* the run of the loaded program has come to its end: the third single STEP of
\* a program stepped from its load, or the last STEP of a batch of the free run
RunEnded == (last.kind = "step" /\ steps = 3) \/ (last.kind = "batch" /\ batch = 0)

\* C4: when the host runs MOV AX,10 / MOV BL,0 / DIV BL / HLT, single-stepping or
\* free-running, the state ends with status error, error "Divide by Zero", IP
\* just after the 2-byte DIV, and AX and DX as they were before the DIV.
C4_DivideByZeroEndsInError ==
    (loaded = "div0" /\ RunEnded)
        => /\ cpu.status = "error"
           /\ cpu.error = "Divide by Zero"
           /\ cpu.registers.IP = LineAddress("div0", 2) + 2
           /\ cpu.registers.AX = 10
           /\ cpu.registers.DX = 0

\* the free run of the divide-by-zero program has reduced its whole batch
C4_FreeRunEnded == loaded = "div0" /\ last.kind = "batch" /\ batch = 0

\* the labels pass 1 collects for each program
Labels ==
    [p \in DOMAIN Source |->
        Pass1(Source[p], 1, [labels |-> [n \in {} |-> 0], offset |-> 256,
                             thrown |-> FALSE]).labels]

\* the number of bytes pass 2 emits for an instruction line at offset, 0 for a line
\* that holds no instruction or is not encoded
LineLength(parts, enc) ==
    IF Truthy(parts.instruction) /\ ~Threw(enc) THEN Len(enc.bytes) ELSE 0

InstructionLength(parts, labels, offset) ==
    LineLength(parts,
               encodeInstruction(parts.instruction, parts.operands, labels, offset, FALSE))

\* for each program, the encoded length of the instruction at each mapped offset
EncodedLength ==
    [p \in DOMAIN Source |->
        [a \in DOMAIN Compiled[p].sourceMap |->
            InstructionLength(parseLine(Source[p][Compiled[p].sourceMap[a] + 1]),
                              Labels[p], a)]]

\* the opcodes of JMP, the conditional jumps and LOOP
JumpOpcodes == {OPCODES.JMP, OPCODES.LOOP} \cup {OPCODES[JUMPS[m]] : m \in DOMAIN JUMPS}

\* state is about to execute an instruction of program p as the assembler emitted it
AtInstruction(p, state) ==
    /\ state.registers.IP \in DOMAIN EncodedLength[p]
    /\ EncodedLength[p][state.registers.IP] > 0
    /\ \A k \in 0..(EncodedLength[p][state.registers.IP] - 1) :
           Mem(state.memory, state.registers.IP + k)
               = Mem(Compiled[p].machineCode, state.registers.IP + k)

\* C5: a step that executes an instruction the assembler emitted and takes no jump
\* advances IP by exactly the number of bytes emitted for that instruction.
C5_IPAdvancesByEncodedLength ==
    (/\ loaded # "none"
     /\ IsStep
     /\ ~last.thrown
     /\ AtInstruction(loaded, pre)
     /\ Mem(pre.memory, pre.registers.IP) \notin JumpOpcodes)
        => cpu.registers.IP = pre.registers.IP + EncodedLength[loaded][pre.registers.IP]

\* a memory form of a one-operand instruction, three bytes long, has executed
C5_MemoryFormExecuted ==
    /\ loaded = "decmem"
    /\ IsStep
    /\ AtInstruction(loaded, pre)
    /\ Mem(pre.memory, pre.registers.IP) = OPCODES.DEC_MEM

\* C6: in every state the steps produce from a loaded state, IP is in 0..65535.
C6_IPInRange == loaded # "none" => cpu.registers.IP \in 0..65535

\* the instruction in the last byte of memory has executed
C6_LastByteExecuted == loaded = "edge" /\ IsStep /\ pre.registers.IP = 65535

\* C7: in every state the steps produce from a loaded state, each of AX, BX, CX,
\* DX, SP, BP, SI, DI holds an integer in 0..0xFFFF.
C7_RegistersInRange == loaded # "none" => RegistersInRange(cpu)

\* a 16-bit DIV with DX >= 0x8000 has executed
C7_WideDivExecuted ==
    IsStep /\ DivAt(pre) /\ DivOperand(pre) >= 8 /\ pre.registers.DX >= 32768

\* C8: a DIV with a nonzero divisor sets AL and AH, or AX and DX, to the quotient
\* and remainder of the unsigned AX, or DX * 65536 + AX, when the quotient fits
\* the destination; otherwise a divide overflow is reported and AX and DX are
\* left unchanged.
C8_DivQuotientAndRemainder ==
    (IsStep /\ DivAt(pre) /\ RegistersInRange(pre) /\ Divisor(pre) # 0)
        => /\ cpu.registers.AX = DivExpected(pre).ax
           /\ cpu.registers.DX = DivExpected(pre).dx
           /\ (DivExpected(pre).fault = "Divide Overflow"
                  => cpu.status = "error" /\ cpu.error = "Divide Overflow")

\* a DIV with a nonzero divisor has executed
C8_Divided == IsStep /\ DivAt(pre) /\ RegistersInRange(pre) /\ Divisor(pre) # 0

\* C9: after executeInstruction returns, the state object passed in has the
\* registers, flags and memory contents it had before the call.
C9_InputStateUntouched ==
    (IsStep /\ ~last.thrown)
        => /\ last.input.registers = pre.registers
           /\ last.input.flags = pre.flags
           /\ last.input.memory = pre.memory

\* a store to memory has executed
C9_StoreExecuted ==
    IsStep /\ ~last.thrown /\ Mem(pre.memory, pre.registers.IP) = OPCODES.MOV_MEM_REG

\* C10: when executeInstruction throws, the state after the STEP has the memory,
\* registers, flags and logs of the state before it; only status, now error, and
\* error, now the message thrown, differ.
C10_FaultLeavesStateUnchanged ==
    (IsStep /\ last.thrown)
        => cpu = [pre EXCEPT !.status = "error", !.error = last.msg]

\* a 16-bit store whose second byte lies past the end of memory has thrown
C10_StoreFaulted ==
    /\ IsStep
    /\ last.thrown
    /\ last.msg = "Memory Access Out of Bounds"
    /\ Mem(pre.memory, pre.registers.IP) = OPCODES.MOV_MEM_REG

\* the last action loaded program p into the emulator
JustLoaded(p) == loaded = p /\ last.kind = "load"

\* the address pass 1 gave the label name of program p
LabelAddress(p, name) == Labels[p][name]

\* C11: pass 2 writes each operand v of a DW as the bytes v & 0xFF and
\* (v >> 8) & 0xFF and advances the emit offset by 2, as pass 1 counted: in
\* JMP after / w: DW 1234h / after: HLT the image holds 34h, 12h at w and the
\* HLT at after.
C11_DwWritesLittleEndianWords ==
    JustLoaded("word")
        => /\ Mem(cpu.memory, LabelAddress("word", <<"w">>)) = 52
           /\ Mem(cpu.memory, LabelAddress("word", <<"w">>) + 1) = 18
           /\ Mem(cpu.memory, LabelAddress("word", <<"a", "f", "t", "e", "r">>))
                  = OPCODES.HLT

\* the program with a DW between two instructions is loaded
C11_WordProgramLoaded == JustLoaded("word") /\ cpu.status = "idle" /\ steps = 0

\* the bytes the image of program p holds from address a on
ImageBytes(p, a, n) == [k \in 1..n |-> Mem(Compiled[p].machineCode, a + k - 1)]

\* C12: NAME EQU v defines NAME as the constant v and not as the emit offset: in
\* MAX EQU 5 / MOV AX, MAX / HLT the symbol MAX has the value 5 and MOV AX, MAX
\* is encoded as MOV AX, 5 is.
C12_EquDefinesConstant ==
    JustLoaded("equ")
        => /\ LabelAddress("equ", <<"M", "A", "X">>) = 5
           /\ ImageBytes("equ", LineAddress("equ", 1), 4)
                  = encodeInstruction(<<"M", "O", "V">>, <<<<"A", "X">>, <<"5">>>>,
                                      [n \in {} |-> 0], LineAddress("equ", 1),
                                      FALSE).bytes

\* the program that uses a symbol defined with EQU is loaded
C12_EquProgramLoaded == JustLoaded("equ") /\ cpu.registers.IP = 256

\* the mapped offsets of program p at which the image holds the opcode byte 0x90
\* of an encoded instruction
Opcode90Lines(p) ==
    {a \in DOMAIN Compiled[p].sourceMap :
        EncodedLength[p][a] > 0 /\ Mem(Compiled[p].machineCode, a) = 144}

\* the mnemonic of the line of program p mapped at offset a, in upper case
MnemonicAt(p, a) == toUpperCase(parseLine(Source[p][Compiled[p].sourceMap[a] + 1]).instruction)

\* C13: every instruction the assembler encodes with the opcode byte 0x90 is a
\* NOP the programmer wrote.
C13_Opcode90IsNop ==
    loaded # "none" => \A a \in Opcode90Lines(loaded) : MnemonicAt(loaded, a) = <<"N", "O", "P">>

\* a program with an ADD into memory from a register is loaded
C13_AddToMemoryLoaded == JustLoaded("addmem") /\ Opcode90Lines("addmem") # {}

\* the value of a 16-bit register read as a signed integer
Signed16(v) == IF v >= 32768 THEN v - 65536 ELSE v

\* the last action stepped program p over an instruction with opcode op that the
\* assembler emitted
Stepped(p, op) ==
    /\ loaded = p
    /\ IsStep
    /\ AtInstruction(p, pre)
    /\ Mem(pre.memory, pre.registers.IP) = op

\* the address a two-byte relative jump at the IP of state goes to when taken
JumpTarget(state) ==
    state.registers.IP + 2 + SignExtend8(Mem(state.memory, state.registers.IP + 1))

\* C14: after CMP AX, BX the jump JL is taken exactly when AX is less than BX as
\* signed 16-bit integers (the program compares 10 with 20, then 8000h with 1, and
\* each CMP is followed by JL).
C14_JlIsSignedLess ==
    Stepped("signed", OPCODES.JL)
        => ((cpu.registers.IP = JumpTarget(pre))
                <=> (Signed16(pre.registers.AX) < Signed16(pre.registers.BX)))

\* JL has executed after the CMP of 8000h with 1
C14_JlAfterNegativeOperand == Stepped("signed", OPCODES.JL) /\ pre.registers.AX = 32768

\* state is about to execute INT 21h with AH = 09h
AtPrintString(state) ==
    /\ Mem(state.memory, state.registers.IP) = OPCODES.INT
    /\ Mem(state.memory, state.registers.IP + 1) = 33
    /\ (state.registers.AX \div 256) % 256 = 9

\* the addresses from DX on that hold the byte 0x24
Dollars(state) ==
    {a \in DOMAIN state.memory : a >= state.registers.DX /\ state.memory[a] = 36}

FirstDollar(state) == CHOOSE a \in Dollars(state) : \A b \in Dollars(state) : a <= b

\* the bytes from address from up to, not including, address to, as a text
TextBetween(mem, from, to) ==
    [len |-> to - from,
     chars |-> [i \in {j \in 0..(to - from - 1) : Mem(mem, from + j) # 0}
                    |-> Mem(mem, from + i)]]

\* C15: INT 21h with AH = 09h outputs the bytes from DX up to, not including, the
\* first byte 0x24; with no byte 0x24 between DX and 0xFFFF the step throws.
C15_PrintStopsAtDollarOrFaults ==
    (loaded # "none" /\ IsStep /\ AtInstruction(loaded, pre) /\ AtPrintString(pre)
                     /\ pre.registers.DX \in 0..65535)
        => IF Dollars(pre) = {}
           THEN last.thrown
           ELSE /\ ~last.thrown
                /\ FirstDollar(pre) > pre.registers.DX
                       => cpu.logs = Append(pre.logs,
                                            TextBetween(pre.memory, pre.registers.DX,
                                                        FirstDollar(pre)))

\* INT 21h with AH = 09h has executed with no byte 0x24 from DX to the end of memory
C15_PrintedWithoutDollar ==
    loaded = "nodollar" /\ IsStep /\ AtInstruction(loaded, pre) /\ AtPrintString(pre)
                        /\ Dollars(pre) = {}

\* the COMPILE button has just handed the text p to compile
JustCompiled(p) == last.kind \in {"toast", "load"} /\ last.source = p

\* the 1-based numbers of the lines of text p that hold an instruction
InstructionLines(p) ==
    {n \in 1..Len(Source[p]) :
        ~parseLine(Source[p][n]).null /\ Truthy(parseLine(Source[p][n]).instruction)}

\* C16: compile returns normally for every source text, also one with a line whose
\* operands are missing; each failure is an errors entry that carries the 1-based
\* number of an instruction line, and that line emits no byte (in MOV AX / HLT the
\* HLT is at the start address).
C16_CompileNeverRaises ==
    \A p \in DOMAIN Source :
        JustCompiled(p)
            => /\ ~Compiled[p].thrown
               /\ \A i \in DOMAIN Compiled[p].errors :
                      Compiled[p].errors[i].line \in InstructionLines(p)
               /\ p = "short" => /\ Len(Compiled[p].errors) = 1
                                 /\ Mem(Compiled[p].machineCode, Compiled[p].startAddress)
                                        = OPCODES.HLT

\* compile was given a text with a DB that has no operand
C16_CompiledBareDirective == JustCompiled("bare") /\ last.kind = "toast" /\ Compiled["bare"].thrown

\* C17: JMP $ compiles without errors to a jump to its own address; every step of
\* the loaded program returns without fault and without halt and leaves IP at the
\* address of the JMP.
C17_JumpToSelfLoops ==
    /\ JustCompiled("self")
           => /\ ~Compiled["self"].thrown
              /\ Compiled["self"].errors = <<>>
              /\ last.kind = "load"
              /\ ImageBytes("self", Compiled["self"].startAddress, 3)
                     = <<OPCODES.JMP, 253, 255>>
    /\ (loaded = "self" /\ IsStep)
           => /\ ~last.thrown
              /\ ~last.halted
              /\ cpu.registers.IP = Compiled["self"].startAddress

\* compile was given the text JMP $
C17_CompiledJumpToSelf == JustCompiled("self") /\ Source["self"] = <<<<"J", "M", "P", " ", "$">>>>

\* the opcodes of the register/immediate instructions
RegImmOpcodes ==
    {OPCODES.MOV_REG_IMM, OPCODES.ADD_REG_IMM, OPCODES.SUB_REG_IMM, OPCODES.CMP_REG_IMM,
     OPCODES.AND_REG_IMM, OPCODES.OR_REG_IMM, OPCODES.XOR_REG_IMM}

\* state is about to execute a register/immediate instruction with an 8-bit
\* destination
AtByteImmediate(state) ==
    /\ Mem(state.memory, state.registers.IP) \in RegImmOpcodes
    /\ Mem(state.memory, state.registers.IP + 1) < 8

\* state with the high byte of the immediate of the instruction at IP cleared
LowImmediate(state) ==
    [state EXCEPT !.memory = MemSet(@, state.registers.IP + 3, 0)]

\* C18: a register/immediate instruction with an 8-bit destination ignores the high
\* byte of its immediate: the same instruction with that byte cleared gives the
\* same registers and the same ZF, SF and CF.
C18_HighImmediateByteIgnored ==
    (loaded # "none" /\ IsStep /\ ~last.thrown /\ AtInstruction(loaded, pre)
                     /\ AtByteImmediate(pre))
        => /\ cpu.registers = StepProgram(LowImmediate(pre)).registers
           /\ cpu.flags.ZF = StepProgram(LowImmediate(pre)).flags.ZF
           /\ cpu.flags.SF = StepProgram(LowImmediate(pre)).flags.SF
           /\ cpu.flags.CF = StepProgram(LowImmediate(pre)).flags.CF

\* an ADD to an 8-bit register has executed with a nonzero high immediate byte
C18_WideImmediateAdded ==
    /\ Stepped("imm8", OPCODES.ADD_REG_IMM)
    /\ AtByteImmediate(pre)
    /\ Mem(pre.memory, pre.registers.IP + 3) # 0

\* the word the image holds at address a, low byte first
WordAt(mem, a) == Mem(mem, a) + 256 * Mem(mem, a + 1)

\* the opcodes the assembler emits for INC and DEC with a memory operand
MemoryIncDecOpcodes ==
    {OPCODES.INC_MEM, OPCODES.DEC_MEM, OPCODES.INC_INDEX, OPCODES.DEC_INDEX}

\* the address the INC or DEC at the IP of state works on: the word after the
\* opcode, or the base word plus the index register for the indexed forms
IncDecAddress(state) ==
    IF Mem(state.memory, state.registers.IP) \in {OPCODES.INC_MEM, OPCODES.DEC_MEM}
    THEN WordAt(state.memory, state.registers.IP + 1)
    ELSE WordAt(state.memory, state.registers.IP + 2)
             + getReg(state.registers, Mem(state.memory, state.registers.IP + 1))

\* old + 1 for INC, old - 1 for DEC, before truncation
IncDecRaw(state) ==
    Mem(state.memory, IncDecAddress(state))
        + (IF Mem(state.memory, state.registers.IP) \in {OPCODES.INC_MEM, OPCODES.INC_INDEX}
           THEN 1 ELSE -1)

\* C19: INC and DEC with a memory operand, as the assembler emits them, make the
\* addressed byte (old + 1) mod 256 and (old - 1) mod 256 and set ZF, SF and CF
\* from the raw result at 8-bit width.
C19_MemoryIncDecAtByteWidth ==
    (/\ loaded # "none"
     /\ IsStep
     /\ AtInstruction(loaded, pre)
     /\ Mem(pre.memory, pre.registers.IP) \in MemoryIncDecOpcodes
     /\ IncDecAddress(pre) < MEMORY_SIZE)
        => /\ ~last.thrown
           /\ Mem(cpu.memory, IncDecAddress(pre)) = IncDecRaw(pre) % 256
           /\ cpu.flags.ZF = (IncDecRaw(pre) % 256 = 0)
           /\ cpu.flags.SF = (IncDecRaw(pre) % 256 >= 128)
           /\ cpu.flags.CF = (IncDecRaw(pre) > 255 \/ IncDecRaw(pre) < 0)

\* a DEC of a variable in memory has executed
C19_MemoryDecremented ==
    Stepped("decmem", OPCODES.DEC_MEM) /\ Mem(pre.memory, IncDecAddress(pre)) = 5

\* base + regs[index] of the indexed MOV at the IP of state, before any wrapping:
\* MOV_REG_INDEX is [op][dest][index][lo][hi], MOV_INDEX_REG [op][index][lo][hi][src]
IndexedSum(state) ==
    IF Mem(state.memory, state.registers.IP) = OPCODES.MOV_REG_INDEX
    THEN WordAt(state.memory, state.registers.IP + 3)
             + getReg(state.registers, Mem(state.memory, state.registers.IP + 2))
    ELSE WordAt(state.memory, state.registers.IP + 2)
             + getReg(state.registers, Mem(state.memory, state.registers.IP + 1))

\* C20: an indexed load or store whose base + regs[index] is 65536 or more throws
\* the out-of-bounds fault; the address is not wrapped to a low one.
C20_IndexedAccessPastEndFaults ==
    (/\ loaded # "none"
     /\ IsStep
     /\ AtInstruction(loaded, pre)
     /\ Mem(pre.memory, pre.registers.IP) \in {OPCODES.MOV_REG_INDEX, OPCODES.MOV_INDEX_REG}
     /\ IndexedSum(pre) >= MEMORY_SIZE)
        => last.thrown /\ last.msg = "Memory Access Out of Bounds"

\* an indexed load has executed with base + regs[index] past the end of memory
C20_IndexedLoadPastEnd ==
    Stepped("wrap", OPCODES.MOV_REG_INDEX) /\ IndexedSum(pre) >= MEMORY_SIZE

\* the 1-based line numbers of the entries compile left in errors for text p
ErrorLines(p) == {Compiled[p].errors[i].line : i \in DOMAIN Compiled[p].errors}

\* C21: in pass 2 an operand that must be a value and is neither a number nor a
\* defined label adds a Line N entry to errors, in an instruction immediate, in an
\* INT and in a DB: the text MOV AX, zz / INT zz / DB zz gets an entry for each of
\* its three lines.
C21_UnparseableOperandIsAnError ==
    JustCompiled("nan") => ~Compiled["nan"].thrown /\ ErrorLines("nan") = {1, 2, 3}

\* compile was given the text whose three operands are not numbers
C21_CompiledUnparseableOperands == JustCompiled("nan") /\ 1 \in ErrorLines("nan")

\* the operand layouts of the arithmetic opcodes, by the suffix of their names in
\* OPCODES: REG_REG is [op][dest << 4 | src], REG_IMM [op][dest][lo][hi], REG_MEM
\* [op][dest][lo][hi], REG_INDEX [op][dest][index][lo][hi], MEM_REG
\* [op][lo][hi][src], INDEX_REG [op][index][lo][hi][src], MEM_IMM [op][lo][hi][imm],
\* INDEX_IMM [op][index][lo][hi][imm], REG [op][dest], MEM [op][lo][hi] and INDEX
\* [op][index][lo][hi]
TwoOperandForms ==
    {"REG_REG", "REG_IMM", "REG_MEM", "REG_INDEX", "MEM_REG", "INDEX_REG", "MEM_IMM",
     "INDEX_IMM"}

OneOperandForms == {"REG", "MEM", "INDEX"}

\* the mnemonics whose flags C22 describes, as texts, with their names in OPCODES
FlagMnemonics ==
    (<<"A", "D", "D">> :> "ADD") @@ (<<"S", "U", "B">> :> "SUB") @@
    (<<"C", "M", "P">> :> "CMP") @@ (<<"I", "N", "C">> :> "INC") @@
    (<<"D", "E", "C">> :> "DEC")

\* the layout of the instruction with mnemonic name that has the opcode byte op
FormOf(name, op) ==
    CHOOSE f \in (IF name \in {"INC", "DEC"} THEN OneOperandForms ELSE TwoOperandForms) :
        OPCODES[name \o "_" \o f] = op

\* the byte, or the word when wide, that memory holds at address a
Stored(mem, a, wide) == IF wide THEN WordAt(mem, a) ELSE Mem(mem, a)

\* the destination value, the source value and the width of the arithmetic
\* instruction of layout f at the IP of state, operands read at that width
ArithOperands(state, f) ==
    LET ip == state.registers.IP
        m == state.memory
        b1 == Mem(m, ip + 1)
        reg(id) == getReg(state.registers, id)
    IN  CASE f = "REG_REG" ->
                 [a |-> reg(b1 \div 16), b |-> reg(b1 % 16), wide |-> b1 \div 16 >= 8]
          [] f = "REG_IMM" ->
                 [a |-> reg(b1), b |-> Stored(m, ip + 2, b1 >= 8), wide |-> b1 >= 8]
          [] f = "REG_MEM" ->
                 [a |-> reg(b1), b |-> Stored(m, WordAt(m, ip + 2), b1 >= 8), wide |-> b1 >= 8]
          [] f = "REG_INDEX" ->
                 [a |-> reg(b1),
                  b |-> Stored(m, WordAt(m, ip + 3) + reg(Mem(m, ip + 2)), b1 >= 8),
                  wide |-> b1 >= 8]
          [] f = "MEM_REG" ->
                 [a |-> Stored(m, WordAt(m, ip + 1), Mem(m, ip + 3) >= 8),
                  b |-> reg(Mem(m, ip + 3)), wide |-> Mem(m, ip + 3) >= 8]
          [] f = "INDEX_REG" ->
                 [a |-> Stored(m, WordAt(m, ip + 2) + reg(b1), Mem(m, ip + 4) >= 8),
                  b |-> reg(Mem(m, ip + 4)), wide |-> Mem(m, ip + 4) >= 8]
          [] f = "MEM_IMM" ->
                 [a |-> Mem(m, WordAt(m, ip + 1)), b |-> Mem(m, ip + 3), wide |-> FALSE]
          [] f = "INDEX_IMM" ->
                 [a |-> Mem(m, WordAt(m, ip + 2) + reg(b1)), b |-> Mem(m, ip + 4),
                  wide |-> FALSE]
          [] f = "REG" -> [a |-> reg(b1), b |-> 1, wide |-> b1 >= 8]
          [] f = "MEM" -> [a |-> Mem(m, WordAt(m, ip + 1)), b |-> 1, wide |-> FALSE]
          [] f = "INDEX" ->
                 [a |-> Mem(m, WordAt(m, ip + 2) + reg(b1)), b |-> 1, wide |-> FALSE]

\* the raw result of the instruction with mnemonic name on the operands x
RawResult(name, x) == IF name \in {"ADD", "INC"} THEN x.a + x.b ELSE x.a - x.b

\* ZF, SF and CF are those of the raw result res at the width given
FlagsOf(flags, res, wide) ==
    LET size == IF wide THEN 65536 ELSE 256
    IN  /\ flags.ZF = (res % size = 0)
        /\ flags.SF = (res % size >= size \div 2)
        /\ flags.CF = (res > size - 1 \/ res < 0)

\* the last step executed an ADD, SUB, CMP, INC or DEC of the loaded program
SteppedArithmetic ==
    /\ loaded # "none"
    /\ IsStep
    /\ ~last.thrown
    /\ AtInstruction(loaded, pre)
    /\ MnemonicAt(loaded, pre.registers.IP) \in DOMAIN FlagMnemonics

\* the OPCODES name of the mnemonic the last step executed
SteppedName == FlagMnemonics[MnemonicAt(loaded, pre.registers.IP)]

\* the operands of the instruction the last step executed
SteppedOperands ==
    ArithOperands(pre, FormOf(SteppedName, Mem(pre.memory, pre.registers.IP)))

\* C22: after every ADD, SUB, CMP, INC or DEC, in its register, immediate,
\* direct-memory and indexed forms, ZF, SF and CF are those of the raw result at
\* the width of the destination.
C22_FlagsFollowRawResult ==
    SteppedArithmetic
        => FlagsOf(cpu.flags, RawResult(SteppedName, SteppedOperands), SteppedOperands.wide)

\* CMP AX, BX has executed with AX = 10 and BX = 20
C22_ComparedTenWithTwenty ==
    /\ SteppedArithmetic
    /\ Mem(pre.memory, pre.registers.IP) = OPCODES.CMP_REG_REG
    /\ pre.registers.AX = 10
    /\ pre.registers.BX = 20
    /\ ~cpu.flags.ZF /\ cpu.flags.SF /\ cpu.flags.CF

\* the condition under which the conditional jump with mnemonic name is taken
TakenWhen(name, f) ==
    CASE name \in {"JE", "JZ"} -> f.ZF
      [] name \in {"JNE", "JNZ"} -> ~f.ZF
      [] name \in {"JL", "JNGE"} -> f.SF # f.OF
      [] name \in {"JLE", "JNG"} -> f.ZF \/ f.SF # f.OF
      [] name \in {"JG", "JNLE"} -> ~f.ZF /\ f.SF = f.OF
      [] name \in {"JGE", "JNL"} -> f.SF = f.OF
      [] name \in {"JB", "JNAE", "JC"} -> f.CF
      [] name \in {"JBE", "JNA"} -> f.CF \/ f.ZF
      [] name \in {"JA", "JNBE"} -> ~f.CF /\ ~f.ZF
      [] name \in {"JAE", "JNB", "JNC"} -> ~f.CF

\* the mnemonics of the conditional jumps
JumpNames == {JUMPS[m] : m \in DOMAIN JUMPS}

\* C23: a conditional jump is taken, IP becoming the address after its two bytes
\* plus the sign-extended displacement, exactly when its condition on ZF, SF, OF
\* and CF holds; otherwise IP advances by 2; flags, memory and the other registers
\* are unchanged either way.
C23_ConditionalJumpFollowsItsCondition ==
    \A name \in JumpNames :
        (IsStep /\ Mem(pre.memory, pre.registers.IP) = OPCODES[name])
            => /\ ~last.thrown
               /\ cpu.registers
                      = [pre.registers EXCEPT
                             !.IP = IF TakenWhen(name, pre.flags) THEN JumpTarget(pre)
                                    ELSE pre.registers.IP + 2]
               /\ cpu.flags = pre.flags
               /\ cpu.memory = pre.memory

\* JL has been taken backwards with OF set and SF clear
C23_JumpedOnOverflow ==
    /\ IsStep
    /\ Mem(pre.memory, pre.registers.IP) = OPCODES.JL
    /\ pre.flags.OF /\ ~pre.flags.SF
    /\ cpu.registers.IP = JumpTarget(pre)
    /\ JumpTarget(pre) < pre.registers.IP

\* CX after a LOOP executed in state
LoopCount(state) == (state.registers.CX - 1) % 65536

\* C24: LOOP sets CX to (CX - 1) mod 65536 and jumps exactly when the new CX is not
\* zero, leaving flags, memory and the other registers unchanged; the program
\* MOV CX, 3 / MOV AX, 0 / top: INC AX / LOOP top / HLT halts with AX = 3, CX = 0.
C24_LoopCountsDown ==
    /\ (loaded # "none" /\ IsStep /\ AtInstruction(loaded, pre)
                        /\ Mem(pre.memory, pre.registers.IP) = OPCODES.LOOP)
           => /\ ~last.thrown
              /\ cpu.registers
                     = [pre.registers EXCEPT
                            !.CX = LoopCount(pre),
                            !.IP = IF LoopCount(pre) # 0 THEN JumpTarget(pre)
                                   ELSE pre.registers.IP + 2]
              /\ cpu.flags = pre.flags
              /\ cpu.memory = pre.memory
    /\ (loaded = "count" /\ IsStep /\ last.halted)
           => cpu.registers.AX = 3 /\ cpu.registers.CX = 0

\* the counted loop has run to its HLT
C24_CountedLoopHalted ==
    loaded = "count" /\ IsStep /\ last.halted /\ cpu.registers.AX = 3

\* the unsigned product a * r of two 16-bit values as its high and low words, by
\* long multiplication on the bytes of both
Product32(a, r) ==
    LET a1 == a \div 256
        a0 == a % 256
        r1 == r \div 256
        r0 == r % 256
        low == (a1 * r0 + a0 * r1) * 256 + a0 * r0
    IN  [hi |-> a1 * r1 + (low \div 65536), lo |-> low % 65536]

\* state is about to execute MUL with the register id as operand
AtMul(state, id) ==
    /\ Mem(state.memory, state.registers.IP) = OPCODES.MUL_REG
    /\ Mem(state.memory, state.registers.IP + 1) = id

\* C25: MUL by an 8-bit register sets AX to AL times the register; MUL by a 16-bit
\* register sets DX to the high word and AX to the low word of AX times the
\* register; no other general register changes.
C25_MulWritesTheWholeProduct ==
    \A id \in 0..15 :
        (IsStep /\ AtMul(pre, id)) =>
            LET a == pre.registers.AX
                r == getReg(pre.registers, id)
                next == pre.registers.IP + 2
            IN  /\ ~last.thrown
                /\ cpu.registers =
                       IF id < 8
                       THEN [pre.registers EXCEPT !.AX = (a % 256) * r, !.IP = next]
                       ELSE [pre.registers EXCEPT !.AX = Product32(a, r).lo,
                                                  !.DX = Product32(a, r).hi, !.IP = next]

\* MUL BX has run with AX = 0x1000 and BX = 0x0010
C25_MultipliedIntoDx ==
    /\ IsStep /\ AtMul(pre, REGISTERS_MAP[<<"B", "X">>])
    /\ pre.registers.AX = 4096 /\ pre.registers.BX = 16
    /\ cpu.registers.AX = 0 /\ cpu.registers.DX = 1

\* the opcodes of the instructions with a register destination, those with both
\* registers packed in one byte, and the id of the destination
PackedOpcodes ==
    {OPCODES[n \o "_REG_REG"] : n \in {"MOV", "ADD", "SUB", "AND", "OR", "XOR"}}

RegisterDestinationOpcodes ==
    PackedOpcodes
        \cup {OPCODES[n \o f] : n \in {"MOV", "ADD", "SUB", "AND", "OR", "XOR"},
                                f \in {"_REG_IMM", "_REG_MEM", "_REG_INDEX"}}
        \cup {OPCODES.NOT_REG, OPCODES.INC_REG, OPCODES.DEC_REG}

DestinationId(state) ==
    LET b == Mem(state.memory, state.registers.IP + 1)
    IN  IF Mem(state.memory, state.registers.IP) \in PackedOpcodes THEN b \div 16 ELSE b

\* state is about to execute an instruction whose destination is the byte register d
AtByteDestination(state, d) ==
    /\ Mem(state.memory, state.registers.IP) \in RegisterDestinationOpcodes
    /\ DestinationId(state) = d

\* the 16-bit register the byte register d is a half of
ParentOf(d) == <<"AX", "CX", "DX", "BX">>[(d % 4) + 1]

\* C26: an instruction whose destination is a byte register leaves the other half
\* of the parent register and every other register except IP unchanged; MOV with an
\* indexed source loads the byte at base + index into that half.
C26_ByteDestinationKeepsOtherHalf ==
    \A d \in 0..7 :
        (IsStep /\ AtByteDestination(pre, d)) =>
            /\ \A r \in DOMAIN cpu.registers \ {"IP", ParentOf(d)} :
                   cpu.registers[r] = pre.registers[r]
            /\ IF d >= 4
               THEN cpu.registers[ParentOf(d)] % 256 = pre.registers[ParentOf(d)] % 256
               ELSE cpu.registers[ParentOf(d)] \div 256 = pre.registers[ParentOf(d)] \div 256
            /\ (~last.thrown /\ Mem(pre.memory, pre.registers.IP) = OPCODES.MOV_REG_INDEX)
                   => getReg(cpu.registers, d)
                          = Mem(pre.memory,
                                (WordAt(pre.memory, pre.registers.IP + 3)
                                     + getReg(pre.registers,
                                              Mem(pre.memory, pre.registers.IP + 2))) % 65536)

\* MOV AL, data[SI] with SI = 2 has loaded the third byte of data and kept AH
C26_LoadedThirdByteIntoAl ==
    /\ IsStep /\ AtByteDestination(pre, 0)
    /\ Mem(pre.memory, pre.registers.IP) = OPCODES.MOV_REG_INDEX
    /\ Mem(pre.memory, pre.registers.IP + 2) = REGISTERS_MAP[<<"S", "I">>]
    /\ pre.registers.SI = 2 /\ pre.registers.AX = 4660
    /\ cpu.registers.AX = 4659

\* the instructions with one register and one memory operand
AccessNames == {"MOV", "ADD", "SUB", "CMP", "AND", "OR", "XOR"}

AccessForms == {"_REG_MEM", "_REG_INDEX", "_MEM_REG", "_INDEX_REG"}

\* state is about to execute the form f of the instruction n
AtAccess(state, n, f) == Mem(state.memory, state.registers.IP) = OPCODES[n \o f]

\* the id of the register operand and the address of the memory operand of the
\* form f of the instruction at IP
AccessRegister(state, f) ==
    Mem(state.memory,
        state.registers.IP + (CASE f = "_MEM_REG" -> 3 [] f = "_INDEX_REG" -> 4 [] OTHER -> 1))

AccessAddress(state, f) ==
    LET ip == state.registers.IP
    IN  CASE f = "_REG_MEM" -> WordAt(state.memory, ip + 2)
          [] f = "_MEM_REG" -> WordAt(state.memory, ip + 1)
          [] f = "_REG_INDEX" ->
                 WordAt(state.memory, ip + 3) + getReg(state.registers, Mem(state.memory, ip + 2))
          [] f = "_INDEX_REG" ->
                 WordAt(state.memory, ip + 2) + getReg(state.registers, Mem(state.memory, ip + 1))

\* C27: a load or store with a 16-bit register operand at the address 0xFFFF,
\* direct or indexed, in MOV, ADD, SUB, CMP, AND, OR or XOR, raises a memory fault
\* and writes nothing to memory; with an 8-bit register operand it succeeds.
C27_WordAccessAtLastByteFaults ==
    \A n \in AccessNames, f \in AccessForms :
        (IsStep /\ AtAccess(pre, n, f) /\ AccessAddress(pre, f) = 65535) =>
            IF AccessRegister(pre, f) >= 8
            THEN last.thrown /\ cpu.memory = pre.memory
            ELSE ~last.thrown

\* MOV AX, [0FFFFh] has faulted
C27_WordLoadAtLastByteFaulted ==
    /\ IsStep /\ AtAccess(pre, "MOV", "_REG_MEM") /\ AccessAddress(pre, "_REG_MEM") = 65535
    /\ AccessRegister(pre, "_REG_MEM") = 8 /\ last.thrown

\* the instructions that take two operands
TwoOperandNames == {<<"M", "O", "V">>} \cup DOMAIN ArithOpCodes

\* the operand o of a line of text p is a memory operand as written: [expr] with
\* expr a number or a label, a label alone, or LABEL[REG]
IsValueIn(p, o) == o \in DOMAIN Labels[p] \/ ~parseNumber(o).nan

IsDirectOperand(p, o) ==
    /\ Len(o) >= 2 /\ o[1] = "[" /\ o[Len(o)] = "]"
    /\ IsValueIn(p, trim(SubSeq(o, 2, Len(o) - 1)))

IsIndexedOperand(p, o) ==
    \E k \in 2..(Len(o) - 1) :
        /\ o[k] = "[" /\ o[Len(o)] = "]"
        /\ trim(SubSeq(o, 1, k - 1)) \in DOMAIN Labels[p]
        /\ isReg(trim(SubSeq(o, k + 1, Len(o) - 1)))

IsMemoryOperand(p, o) ==
    IsDirectOperand(p, o) \/ o \in DOMAIN Labels[p] \/ IsIndexedOperand(p, o)

\* the 1-based numbers of the lines of text p that hold a two-operand instruction
\* with two memory operands
MemoryToMemoryLines(p) ==
    {n \in InstructionLines(p) :
        LET parts == parseLine(Source[p][n])
        IN  /\ toUpperCase(parts.instruction) \in TwoOperandNames
            /\ Len(parts.operands) = 2
            /\ IsMemoryOperand(p, parts.operands[1])
            /\ IsMemoryOperand(p, parts.operands[2])}

\* for each text, whether compile returned with the entry Line N: Memory to Memory
\* transfer not allowed. Use a register as intermediate. in errors for each of its
\* lines N with two memory operands
MemoryToMemoryReported ==
    [p \in DOMAIN Source |->
        \A n \in MemoryToMemoryLines(p) :
            /\ ~Compiled[p].thrown
            /\ \E i \in DOMAIN Compiled[p].errors :
                   Compiled[p].errors[i] =
                       [line |-> n,
                        err |-> [text |-> "Memory to Memory transfer not allowed. Use a register as intermediate.",
                                 arg |-> <<>>]]]

\* C28: a MOV, ADD, SUB, AND, OR, XOR or CMP whose two operands are both memory
\* operands emits no byte and adds the entry Line N: Memory to Memory transfer not
\* allowed. Use a register as intermediate. to errors; the text of 63 such lines
\* between v DB 1 and HLT / arr DB 1, 2 compiles to the bytes 01 F4 01 02.
C28_MemoryToMemoryIsRejected ==
    \A p \in DOMAIN Source :
        JustCompiled(p) =>
            /\ MemoryToMemoryReported[p]
            /\ p = "memmem" =>
                   /\ Len(Compiled[p].errors) = 63
                   /\ ErrorLines(p) = 2..64
                   /\ DOMAIN Compiled[p].machineCode \subseteq 256..259
                   /\ ImageBytes(p, 256, 4) = <<1, OPCODES.HLT, 1, 2>>

\* compile was given the text with the 63 memory-to-memory lines
C28_CompiledMemoryToMemory ==
    JustCompiled("memmem") /\ last.kind = "toast" /\ Len(Compiled["memmem"].errors) = 63

\* the operand o of a line of text p names a label: alone, in brackets or indexed
ReferencesLabel(p, o) ==
    \/ o \in DOMAIN Labels[p]
    \/ /\ Len(o) >= 2 /\ o[1] = "[" /\ o[Len(o)] = "]"
       /\ trim(SubSeq(o, 2, Len(o) - 1)) \in DOMAIN Labels[p]
    \/ IsIndexedOperand(p, o)

\* the 1-based numbers of the instruction lines of text p with such an operand
LabelReferenceLines(p) ==
    {n \in InstructionLines(p) :
        \E k \in DOMAIN parseLine(Source[p][n]).operands :
            ReferencesLabel(p, parseLine(Source[p][n]).operands[k])}

\* the offset of pass 1 after the first n lines of text p
Pass1Offset(p, n) ==
    Pass1(SubSeq(Source[p], 1, n), 1,
          [labels |-> [l \in {} |-> 0], offset |-> 256, thrown |-> FALSE]).offset

\* for each text, whether pass 1 advanced by the length pass 2 emits on each of its
\* lines that reference a label
SameLengthInBothPasses ==
    [p \in DOMAIN Source |->
        \A n \in LabelReferenceLines(p) :
            Pass1Offset(p, n) - Pass1Offset(p, n - 1)
                = Len(encodeInstruction(parseLine(Source[p][n]).instruction,
                                        parseLine(Source[p][n]).operands, Labels[p], 0,
                                        FALSE).bytes)]

\* C29: an instruction that references a label has in pass 1, where the label may
\* be unresolved, the length pass 2 emits, so a forward reference runs as a
\* backward one does: INC each / HLT / each: DB 5 halts at its second step with
\* the byte at each incremented to 6.
C29_ForwardReferenceKeepsLength ==
    /\ \A p \in DOMAIN Source :
           (JustCompiled(p) /\ ~Compiled[p].thrown /\ Compiled[p].errors = <<>>)
               => SameLengthInBothPasses[p]
    /\ (loaded = "fwdhex" /\ IsStep /\ steps = 2)
           => /\ last.halted
              /\ Mem(cpu.memory, LabelAddress("fwdhex", <<"e", "a", "c", "h">>)) = 6

\* the backward reference has run to its HLT with the byte at each incremented
C29_BackwardReferenceHalted ==
    /\ loaded = "backhex" /\ IsStep /\ last.halted
    /\ Mem(cpu.memory, LabelAddress("backhex", <<"e", "a", "c", "h">>)) = 6

\* the COMPILE button has been pressed on a text for which compile returns a
\* non-empty errors list
CompileFailed(kind, source) ==
    /\ kind = "toast" /\ source \in DOMAIN Source
    /\ ~Compiled[source].thrown /\ Compiled[source].errors # <<>>

\* C30: when compile returns a non-empty errors list the host loads nothing: the
\* CPU state (memory, registers, flags, status, logs) and the active source map
\* are what they were before the COMPILE.
C30_FailedCompileLoadsNothing ==
    [][CompileFailed(last'.kind, last'.source) => (cpu' = cpu /\ loaded' = loaded)]_vars

\* a text with errors has been compiled while a loaded program was part-way through
C30_FailedCompileMidRun ==
    /\ CompileFailed(last.kind, last.source)
    /\ loaded = "loop" /\ steps = 3 /\ cpu = pre /\ cpu.registers.CX = 1

ErrorFree == {p \in DOMAIN Source : ~Compiled[p].thrown /\ Compiled[p].errors = <<>>}

\* the emit offset of pass 2 after the first n lines of text p
Pass2Offset(p, n) ==
    Pass2(SubSeq(Source[p], 1, n), 1, Labels[p],
          [offset |-> 256, machineCode |-> EmptyMemory, errors |-> <<>>,
           sourceMap |-> [x \in {} |-> 0], thrown |-> FALSE]).offset

\* for each error-free text, the offset of the first byte of each instruction line
\* that emits bytes, by the 1-based number of the line
InstructionStart ==
    [p \in ErrorFree |->
        [n \in {m \in InstructionLines(p) : Pass2Offset(p, m) > Pass2Offset(p, m - 1)}
            |-> Pass2Offset(p, n - 1)]]

\* the 1-based numbers of the lines of text p that are blank or hold a comment, a
\* label or an ORG only
UnmappedLines(p) ==
    {n \in 1..Len(Source[p]) :
        \/ parseLine(Source[p][n]).null
        \/ /\ ~Truthy(parseLine(Source[p][n]).instruction)
           /\ parseLine(Source[p][n]).directive \notin {DB, DW}}

\* for each error-free text, whether its source map holds the first offset of each
\* emitting instruction line with the 0-based index of the line, and no entry for
\* a line that is blank or holds a comment, a label or an ORG only
SourceMapIsExact ==
    [p \in ErrorFree |->
        /\ \A n \in DOMAIN InstructionStart[p] :
               /\ InstructionStart[p][n] \in DOMAIN Compiled[p].sourceMap
               /\ Compiled[p].sourceMap[InstructionStart[p][n]] = n - 1
        /\ \A n \in UnmappedLines(p) :
               \A a \in DOMAIN Compiled[p].sourceMap : Compiled[p].sourceMap[a] # n - 1]

\* sourceMap.get(cpu.registers.IP) with the source map of the loaded program; -1
\* for undefined
ActiveLine ==
    IF cpu.registers.IP \in DOMAIN Compiled[loaded].sourceMap
    THEN Compiled[loaded].sourceMap[cpu.registers.IP] ELSE -1

\* C32: the source map of an error-free text maps the offset of the first byte of
\* each instruction line that emits bytes to the 0-based index of the line and has
\* no entry for a blank, comment-only, label-only or ORG line; so while the program
\* runs, whenever IP is at the first byte of an instruction line, the active line
\* is that line.
C32_SourceMapNamesTheInstruction ==
    /\ \A p \in ErrorFree : JustCompiled(p) => SourceMapIsExact[p]
    /\ loaded # "none" =>
           \A n \in DOMAIN InstructionStart[loaded] :
               cpu.registers.IP = InstructionStart[loaded][n] => ActiveLine = n - 1

\* the program with the comment, ORG, blank and label-only lines has jumped over its
\* data to the HLT on its tenth line
C32_ActiveLineAfterJump ==
    /\ Stepped("lines", OPCODES.JMP)
    /\ UnmappedLines("lines") = {1, 2, 3, 4, 9, 11}
    /\ cpu.registers.IP = InstructionStart["lines"][10]
    /\ ActiveLine = 9

\* state is about to execute INT n
AtInt(state, n) ==
    /\ Mem(state.memory, state.registers.IP) = OPCODES.INT
    /\ Mem(state.memory, state.registers.IP + 1) = n

\* AH and DL of state
HighOfAx(state) == (state.registers.AX \div 256) % 256

LowOfDx(state) == state.registers.DX % 256

\* C33: INT n returns without fault and without halt, leaves flags, memory and all
\* registers except IP unchanged and advances IP by 2; it adds nothing to the
\* output unless n = 0x21 and AH is 0x02 or 0x09, and with AH = 0x02 it outputs the
\* single character with code DL.
C33_IntOnlyPrints ==
    \A n \in 0..255 :
        (IsStep /\ AtInt(pre, n)) =>
            /\ ~last.thrown /\ ~last.halted
            /\ cpu.registers = [pre.registers EXCEPT !.IP = @ + 2]
            /\ cpu.flags = pre.flags
            /\ cpu.memory = pre.memory
            /\ cpu.status = pre.status /\ cpu.error = pre.error
            /\ (n # 33 \/ HighOfAx(pre) \notin {2, 9}) => cpu.logs = pre.logs
            /\ (n = 33 /\ HighOfAx(pre) = 2 /\ LowOfDx(pre) # 0)
                   => cpu.logs = Append(pre.logs, Text(<<LowOfDx(pre)>>))

\* INT 20h has executed with AH = 09h and DX at a text
C33_OtherInterruptWithPrintFunction ==
    /\ IsStep /\ AtInt(pre, 32) /\ HighOfAx(pre) = 9
    /\ Mem(pre.memory, pre.registers.DX) = 72
    /\ cpu.logs = <<>>

\* the flags no instruction writes and the segment registers
InertFlags == {"OF", "PF", "AF", "TF", "IF_", "DF"}

SegmentRegisters == {"CS", "DS", "ES", "SS"}

\* C34: no step changes OF, PF, AF, TF, IF or DF, nor CS, DS, ES or SS: in every
\* state reached from a load by any sequence of steps these flags are false and
\* these registers are 0.
C34_InertFlagsAndSegmentsStayClear ==
    /\ \A f \in InertFlags : ~cpu.flags[f]
    /\ \A r \in SegmentRegisters : cpu.registers[r] = 0
    /\ IsStep => /\ \A f \in InertFlags : cpu.flags[f] = pre.flags[f]
                 /\ \A r \in SegmentRegisters : cpu.registers[r] = pre.registers[r]

\* CMP AX, BX has compared 8000h with 1, a signed overflow, and set no OF
C34_SignedOverflowLeftOfClear ==
    /\ Stepped("signed", OPCODES.CMP_REG_REG)
    /\ pre.registers.AX = 32768 /\ pre.registers.BX = 1
    /\ ~cpu.flags.OF /\ ~cpu.flags.SF

\* C35: after MUL, ZF and SF are those of the full-width product: by a 16-bit
\* register ZF is set exactly when the 32-bit product DX:AX is zero and SF exactly
\* when its bit 31 is set; by an 8-bit register ZF is set exactly when the 16-bit
\* product in AX is zero and SF exactly when its bit 15 is set.
C35_MulFlagsFromWholeProduct ==
    \A id \in 0..15 :
        (IsStep /\ AtMul(pre, id) /\ ~last.thrown) =>
            LET product == Product32(pre.registers.AX, getReg(pre.registers, id))
            IN  IF id < 8
                THEN /\ cpu.flags.ZF <=> (cpu.registers.AX = 0)
                     /\ cpu.flags.SF <=> (cpu.registers.AX >= 32768)
                ELSE /\ cpu.flags.ZF <=> (product.hi = 0 /\ product.lo = 0)
                     /\ cpu.flags.SF <=> (product.hi >= 32768)

\* MUL BL has run with AL = 0xFF and BL = 0xFF: the product 0xFE01 has bit 15 set
C35_ByteProductWithSign ==
    /\ IsStep /\ AtMul(pre, REGISTERS_MAP[<<"B", "L">>])
    /\ pre.registers.AX % 256 = 255 /\ pre.registers.BX % 256 = 255
    /\ cpu.registers.AX = 65025 /\ cpu.flags.SF /\ ~cpu.flags.ZF

\* the 1-based numbers of the lines of text p that carry a label
LabelledLines(p) ==
    {n \in 1..Len(Source[p]) :
        ~parseLine(Source[p][n]).null /\ Truthy(parseLine(Source[p][n]).label)}

\* for each error-free text, whether the address pass 1 recorded for the label of
\* each labelled line is the emit offset of pass 2 at that line
LabelsAtEmitOffsets ==
    [p \in ErrorFree |->
        \A n \in LabelledLines(p) :
            Labels[p][parseLine(Source[p][n]).label] = Pass2Offset(p, n - 1)]

\* C36: in a text that compiles with an empty errors list the address pass 1
\* records for each label is the emit offset of pass 2 at the line of the label:
\* both passes advance by the same amount over every instruction, DB, DW and ORG
\* line.
C36_LabelsAreEmitOffsets ==
    \A p \in ErrorFree : JustCompiled(p) => LabelsAtEmitOffsets[p]

\* the text with the DB lines of numbers, of a string and of a string followed by a
\* number and with an ORG has been compiled, and its last label is at 0x120
C36_CompiledDataLines ==
    /\ JustCompiled("dbgood") /\ "dbgood" \in ErrorFree
    /\ LabelAddress("dbgood", <<"d", "o", "n", "e">>) = 288
    /\ Pass2Offset("dbgood", 5) = 288

\* the mnemonics of the two-byte jumps that are taken on a condition
ShortJumpMnemonics == DOMAIN JUMPS \cup {<<"L", "O", "O", "P">>}

\* the label the instruction line of text p at address a names as its operand
TargetLabelAt(p, a) ==
    LET operands == parseLine(Source[p][Compiled[p].sourceMap[a] + 1]).operands
    IN  CHOOSE o \in DOMAIN Labels[p] : \E k \in DOMAIN operands : operands[k] = o

\* whether the short jump of text p at the IP of state is taken
ShortJumpTaken(p, state) ==
    LET m == MnemonicAt(p, state.registers.IP)
    IN  IF m = <<"L", "O", "O", "P">> THEN LoopCount(state) # 0
        ELSE TakenWhen(JUMPS[m], state.flags)

\* the last step executed a short jump of the error-free text p to a label, as the
\* assembler emitted it, and the jump was taken
TookShortJump(p) ==
    /\ loaded = p
    /\ IsStep
    /\ AtInstruction(p, pre)
    /\ pre.registers.IP \in DOMAIN Compiled[p].sourceMap
    /\ MnemonicAt(p, pre.registers.IP) \in ShortJumpMnemonics
    /\ \E k \in DOMAIN parseLine(Source[p][Compiled[p].sourceMap[pre.registers.IP] + 1]).operands :
           parseLine(Source[p][Compiled[p].sourceMap[pre.registers.IP] + 1]).operands[k]
               \in DOMAIN Labels[p]
    /\ ShortJumpTaken(p, pre)

\* for each error-free text, the lines with a short jump to a label farther than
\* -128..+127 bytes from the end of the jump
FarJumpLines ==
    [p \in ErrorFree |->
        {n \in DOMAIN InstructionStart[p] :
            /\ toUpperCase(parseLine(Source[p][n]).instruction) \in ShortJumpMnemonics
            /\ \E k \in DOMAIN parseLine(Source[p][n]).operands :
                   LET o == parseLine(Source[p][n]).operands[k]
                   IN  /\ o \in DOMAIN Labels[p]
                       /\ Labels[p][o] - (InstructionStart[p][n] + 2) \notin -128..127}]

\* C37: in a text that compiles with an empty errors list no conditional jump or
\* LOOP names a label farther than -128..+127 bytes from the end of its two bytes
\* (such a target is reported as an error), and executing a taken conditional jump
\* or LOOP of such a text sets IP to the address of its target label.
C37_TakenShortJumpReachesItsLabel ==
    \A p \in ErrorFree :
        /\ JustCompiled(p) => FarJumpLines[p] = {}
        /\ TookShortJump(p)
               => cpu.registers.IP = LabelAddress(p, TargetLabelAt(p, pre.registers.IP))

\* the LOOP of the counting text has been taken backwards to its label
C37_LoopedBackToLabel ==
    /\ TookShortJump("count")
    /\ cpu.registers.IP = LabelAddress("count", <<"t", "o", "p">>)
    /\ cpu.registers.IP < pre.registers.IP

\* JE far has been taken in the text whose label far is 252 bytes past the jump
C37_TookFarJump ==
    /\ TookShortJump("far")
    /\ LabelAddress("far", <<"f", "a", "r">>) = 512
    /\ cpu.registers.IP = 256

\* C38: in every state the host reaches through RESET, LOAD_PROGRAM, STEP,
\* RUN_START and RUN_STOP, error is non-null exactly when status is error.
C38_ErrorExactlyWhenStatusError ==
    (cpu.error # NULL) <=> (cpu.status = "error")

\* a step has faulted: the status is error and the message is set
C38_FaultedWithMessage ==
    /\ IsStep
    /\ last.thrown
    /\ cpu.status = "error"
    /\ cpu.error # NULL
    /\ pre.error = NULL

\* the last STEP executed a byte that is no jump and returned
SteppedWithoutJump ==
    /\ IsStep
    /\ ~last.thrown
    /\ Mem(pre.memory, pre.registers.IP) \notin JumpOpcodes

\* the last STEP took the state out of the status running
LeftRunning == IsStep /\ pre.status = "running" /\ cpu.status # "running"

\* what holds of every STEP of a free run whatever ends it: IP strictly increases
\* on every step that is no jump, a STEP with IP past the end of memory is the
\* fault IP out of bounds, and once the status is no longer running the interval
\* is cleared when the batch is over and is not set again
FreeRunProgress ==
    /\ [](SteppedWithoutJump => cpu.registers.IP > pre.registers.IP)
    /\ []((IsStep /\ pre.registers.IP >= MEMORY_SIZE)
              => /\ last.thrown
                 /\ cpu.status = "error"
                 /\ cpu.error = "IP out of bounds")
    /\ [][cpu.status # "running" => cpu'.status # "running"]_vars
    /\ (cpu.status # "running") ~> ~interval
    /\ [][~interval => ~interval']_vars

\* the run has left the status running in one of the two ways given
EndedAtHltOrEndOfMemory ==
    LeftRunning => \/ last.halted /\ cpu.status = "idle"
                   \/ cpu.status = "error" /\ cpu.error = "IP out of bounds"

====
